---- MODULE Spec2Model ----
(***************************************************************************)
(* A model of the DFA engine of jneem/automaton: src/src/dfa.rs (the Dfa,  *)
(* its Hopcroft minimisation, the compilation of a Dfa into a linear       *)
(* Program, the instruction interpreter and the runners).                  *)
(*                                                                         *)
(* Conventions.  State indices and instruction indices are 1-based here    *)
(* (Rust index i is i + 1), so that Option<usize> is an integer with       *)
(* None == 0.  Byte offsets into the input keep Rust's 0-based values: the *)
(* byte at offset p of the input is input[p + 1].  A CharRange is a pair   *)
(* <<start, end>>, a CharSet a sequence of such pairs, a CharMap<V> a      *)
(* sequence of triples <<start, end, value>>.  Strings are sequences of    *)
(* UTF-8 bytes.                                                            *)
(***************************************************************************)
EXTENDS Integers, Sequences, FiniteSets, TLC

(***************************************************************************)
(* Bounds of the model.                                                    *)
(***************************************************************************)
MaxStates == 3
MaxTrans == 3
MaxLen == 2
MaxRounds == 2
MaxUnaryStates == 4

(***************************************************************************)
(* Option, characters, UTF-8.                                              *)
(***************************************************************************)
None == 0

\* The value of s.chars().next() at the end of the input (Option<char>::None).
NoChar == 0 - 1

MaxChar == 1114111

Range(S) == {S[i] : i \in DOMAIN S}

Min(S) == CHOOSE x \in S : \A y \in S : x <= y

RECURSIVE SortedSeq(_)
SortedSeq(S) == IF S = {} THEN <<>> ELSE <<Min(S)>> \o SortedSeq(S \ {Min(S)})

RECURSIVE Concat(_)
Concat(ss) == IF ss = <<>> THEN <<>> ELSE Head(ss) \o Concat(Tail(ss))

\* char::len_utf8
LenUtf8(c) == IF c < 128 THEN 1 ELSE IF c < 2048 THEN 2 ELSE IF c < 65536 THEN 3 ELSE 4

\* String::push(char): the UTF-8 encoding of one scalar value.
EncodeUtf8(c) ==
    IF c < 128 THEN <<c>>
    ELSE IF c < 2048 THEN <<192 + (c \div 64), 128 + (c % 64)>>
    ELSE IF c < 65536 THEN <<224 + (c \div 4096), 128 + ((c \div 64) % 64), 128 + (c % 64)>>
    ELSE <<240 + (c \div 262144), 128 + ((c \div 4096) % 64),
           128 + ((c \div 64) % 64), 128 + (c % 64)>>

\* The number of bytes of the character whose first byte is b.
LeadLen(b) == IF b < 128 THEN 1 ELSE IF b < 224 THEN 2 ELSE IF b < 240 THEN 3 ELSE 4

\* s[p..].chars().next() as a scalar value, NoChar at the end of the input.
CharAt(s, p) ==
    IF p >= Len(s) THEN NoChar
    ELSE LET b == s[p + 1] IN
         IF b < 128 THEN b
         ELSE IF b < 224 THEN (b - 192) * 64 + (s[p + 2] - 128)
         ELSE IF b < 240 THEN (b - 224) * 4096 + (s[p + 2] - 128) * 64 + (s[p + 3] - 128)
         ELSE (b - 240) * 262144 + (s[p + 2] - 128) * 4096
              + (s[p + 3] - 128) * 64 + (s[p + 4] - 128)

\* s[p..].starts_with(lit)
StartsWith(s, p, lit) ==
    /\ p + Len(lit) <= Len(s)
    /\ \A i \in 1..Len(lit) : s[p + i] = lit[i]

(***************************************************************************)
(* CharSet and CharMap (crate char_map), Accept (crate transition).        *)
(***************************************************************************)
\* CharSet::contains
CharSetContains(cs, c) == \E i \in DOMAIN cs : cs[i][1] <= c /\ c <= cs[i][2]

\* CharMap::get: the value at c, None when no range holds c.
CharMapGet(cm, c) ==
    IF \E i \in DOMAIN cm : cm[i][1] <= c /\ c <= cm[i][2]
    THEN cm[CHOOSE i \in DOMAIN cm : cm[i][1] <= c /\ c <= cm[i][2]][3]
    ELSE None

\* CharMap::normalize on a sorted map of disjoint ranges: touching ranges of
\* equal value are coalesced.
RECURSIVE Normalize(_)
Normalize(cm) ==
    IF Len(cm) <= 1 THEN cm
    ELSE LET a == cm[1]
             b == cm[2]
         IN  IF a[3] = b[3] /\ a[2] + 1 = b[1]
             THEN Normalize(<<<<a[1], b[2], a[3]>>>> \o SubSeq(cm, 3, Len(cm)))
             ELSE <<a>> \o Normalize(Tail(cm))

\* CharMap::to_char_set: the ranges of the map, touching ranges coalesced.
RECURSIVE NormalizeSet(_)
NormalizeSet(cs) ==
    IF Len(cs) <= 1 THEN cs
    ELSE LET a == cs[1]
             b == cs[2]
         IN  IF a[2] + 1 >= b[1]
             THEN NormalizeSet(<<<<a[1], IF a[2] > b[2] THEN a[2] ELSE b[2]>>>>
                               \o SubSeq(cs, 3, Len(cs)))
             ELSE <<a>> \o NormalizeSet(Tail(cs))

ToCharSet(cm) == NormalizeSet([i \in DOMAIN cm |-> <<cm[i][1], cm[i][2]>>])

\* CharMap::filter_values
FilterValues(cm, keep) == SelectSeq(cm, LAMBDA t : t[3] \in keep)

\* CharSet::negated: the complement over 0..MaxChar of a normalized set.
RECURSIVE NegatedFrom(_, _)
NegatedFrom(cs, lo) ==
    IF cs = <<>> THEN (IF lo <= MaxChar THEN <<<<lo, MaxChar>>>> ELSE <<>>)
    ELSE (IF lo < cs[1][1] THEN <<<<lo, cs[1][1] - 1>>>> ELSE <<>>)
         \o NegatedFrom(Tail(cs), cs[1][2] + 1)

Negated(cs) == NegatedFrom(cs, 0)

\* CharSet::is_ascii
IsAscii(cs) == \A i \in DOMAIN cs : cs[i][2] < 128

\* CharSet::contains_non_ascii: every non-ASCII scalar value belongs to the set.
ContainsNonAscii(cs) == \E i \in DOMAIN cs : cs[i][1] <= 128 /\ cs[i][2] >= MaxChar

\* CharSet::to_ascii_set: the ASCII members as a set of bytes.
ToAsciiSet(cs) == {b \in 0..127 : CharSetContains(cs, b)}

\* CharSet::intersect followed by char_count.
IntersectCount(cs, ds) ==
    LET Ov(a, b) == LET lo == IF a[1] > b[1] THEN a[1] ELSE b[1]
                        hi == IF a[2] < b[2] THEN a[2] ELSE b[2]
                    IN  IF hi >= lo THEN hi - lo + 1 ELSE 0
        Pairs == (DOMAIN cs) \X (DOMAIN ds)
        RECURSIVE Sum(_)
        Sum(P) == IF P = {} THEN 0
                  ELSE LET p == CHOOSE q \in P : TRUE
                       IN  Ov(cs[p[1]], ds[p[2]]) + Sum(P \ {p})
    IN  Sum(Pairs)

\* CharMultiMap::group / Nfa::transitions: the refinement of a bag of
\* (range, value) pairs into disjoint atoms in increasing order, each with the
\* set of the values of the ranges that cover it.
Group(trips) ==
    LET bnds  == SortedSeq({t[1] : t \in trips} \cup {t[2] + 1 : t \in trips})
        cover(lo) == {t[3] : t \in {u \in trips : u[1] <= lo /\ lo <= u[2]}}
        atoms == [i \in 1..(Len(bnds) - 1) |-> <<bnds[i], bnds[i + 1] - 1, cover(bnds[i])>>]
    IN  SelectSeq(atoms, LAMBDA a : a[3] # {})

\* Accept::never, Accept::always, Accept::is_never
AcceptNever == [at_eoi |-> FALSE, at_char |-> <<>>]

AcceptAlways == [at_eoi |-> TRUE, at_char |-> <<<<0, MaxChar>>>>]

IsNever(a) == a = AcceptNever

\* Accept::accepts(Option<u32>)
Accepts(a, c) == IF c = NoChar THEN a.at_eoi ELSE CharSetContains(a.at_char, c)

(***************************************************************************)
(* Dfa: states, initial triple, reversal, chains, compilation to a Program.*)
(***************************************************************************)
\* Dfa::new
DfaNew == [states |-> <<>>, init_at_start |-> None, init_after_char |-> <<>>,
           init_otherwise |-> None]

\* DfaState::new
DfaStateNew(accept) == [transitions |-> <<>>, accept |-> accept]

\* Dfa::num_states
NumStates(d) == Len(d.states)

\* Dfa::reversed: for every state t the transitions <<start, end, source>> of
\* the reversed automaton that leave t, in the order add_transition pushed them.
Reversed(d) ==
    [t \in 1..NumStates(d) |->
        Concat([idx \in 1..NumStates(d) |->
            LET trs == SelectSeq(d.states[idx].transitions, LAMBDA r : r[3] = t)
            IN  [k \in DOMAIN trs |-> <<trs[k][1], trs[k][2], idx>>]])]

\* Dfa::single_target
SingleTarget(trs) ==
    IF trs = <<>> THEN None
    ELSE IF \A i \in DOMAIN trs : trs[i][3] = trs[1][3] THEN trs[1][3] ELSE None

\* Dfa::single_char (NoChar for Option::None)
SingleChar(trs) ==
    IF trs = <<>> THEN NoChar
    ELSE IF trs[1][1] = trs[1][2] /\ Len(trs) = 1 THEN trs[1][1] ELSE NoChar

\* Dfa::is_starting
IsStarting(d, st_idx) ==
    \/ d.init_at_start = st_idx
    \/ d.init_otherwise = st_idx
    \/ \E i \in DOMAIN d.init_after_char : d.init_after_char[i][3] = st_idx

\* is_chain_link with the bug of merging a state into a target that is a
\* starting state.
IsChainLinkIntoStarting(d, st_idx, rev) ==
    LET tgt == SingleTarget(d.states[st_idx].transitions)
    IN  IF tgt # None
        THEN tgt # st_idx /\ SingleTarget(rev[tgt]) # None
        ELSE FALSE

\* Dfa::is_chain_link
IsChainLink(d, st_idx, rev) ==
    LET tgt == SingleTarget(d.states[st_idx].transitions)
    IN  IF tgt # None
        THEN tgt # st_idx /\ ~IsStarting(d, tgt) /\ SingleTarget(rev[tgt]) # None
        ELSE FALSE

\* Dfa::is_chain_head
IsChainHead(d, st_idx, rev) ==
    LET p     == SingleTarget(rev[st_idx])
        has_p == IF p # None THEN IsChainLink(d, p, rev) ELSE FALSE
    IN  IsStarting(d, st_idx) \/ ~has_p

\* enum Inst
NoSet == [set |-> {}, contains_non_ascii |-> FALSE]

Inst(op, lit, cs, acc, cm, set) ==
    [op |-> op, lit |-> lit, cs |-> cs, acc |-> acc, cm |-> cm, set |-> set]

Literal(lit) == Inst("Literal", lit, <<>>, AcceptNever, <<>>, NoSet)

Char(cs) == Inst("Char", <<>>, cs, AcceptNever, <<>>, NoSet)

Acc(a) == Inst("Acc", <<>>, <<>>, a, <<>>, NoSet)

Branch(cm) == Inst("Branch", <<>>, <<>>, AcceptNever, cm, NoSet)

LoopWhile(set) == Inst("LoopWhile", <<>>, <<>>, AcceptNever, <<>>, set)

Reject == Inst("Reject", <<>>, <<>>, AcceptNever, <<>>, NoSet)

\* is_common
CommonChars == <<<<48, 57>>, <<65, 90>>, <<97, 122>>>>

CommonCharsCount == 10 + 26 + 26

\* is_common with the bug of asking for more than three quarters.
IsCommonMoreThan(cs) == IntersectCount(cs, CommonChars) > ((CommonCharsCount * 3) \div 4)

IsCommon(cs) == IntersectCount(cs, CommonChars) >= ((CommonCharsCount * 3) \div 4)

\* loop_optimization: Option<(ExtAsciiSet, CharMap<usize>)>
LoopOptimization(cm, st_idx) ==
    LET loop_cs == ToCharSet(FilterValues(cm, {st_idx}))
    IN  IF IsCommon(loop_cs) /\ (IsAscii(loop_cs) \/ ContainsNonAscii(loop_cs))
        THEN [some |-> TRUE,
              set  |-> [set |-> ToAsciiSet(loop_cs),
                        contains_non_ascii |-> ContainsNonAscii(loop_cs)],
              transitions |-> FilterValues(cm, {cm[i][3] : i \in DOMAIN cm} \ {st_idx})]
        ELSE [some |-> FALSE, set |-> NoSet, transitions |-> <<>>]

\* The while loop of Dfa::build_chain: the state, the instructions and the
\* pending literal when the loop is left.
RECURSIVE BuildChainLinks(_, _, _, _, _)
BuildChainLinks(d, st_idx, rev, ret, lit_in_progress) ==
    IF IsChainLink(d, st_idx, rev)
    THEN LET st   == d.states[st_idx]
             ret1 == IF ~IsNever(st.accept) THEN Append(ret, Acc(st.accept)) ELSE ret
             ch   == SingleChar(st.transitions)
             ret2 == IF ch # NoChar THEN ret1
                     ELSE (IF lit_in_progress # <<>>
                           THEN Append(ret1, Literal(lit_in_progress)) ELSE ret1)
                          \o <<Char(ToCharSet(st.transitions))>>
             lit2 == IF ch # NoChar THEN lit_in_progress \o EncodeUtf8(ch) ELSE <<>>
         IN  BuildChainLinks(d, SingleTarget(st.transitions), rev, ret2, lit2)
    ELSE [st_idx |-> st_idx, ret |-> ret, lit_in_progress |-> lit_in_progress]

\* build_chain with the bug of pushing Reject only on an empty chain.
BuildChainRejectOnEmpty(d, head, rev) ==
    LET l    == BuildChainLinks(d, head, rev, <<>>, <<>>)
        st   == d.states[l.st_idx]
        ret1 == IF l.lit_in_progress # <<>>
                THEN Append(l.ret, Literal(l.lit_in_progress)) ELSE l.ret
        ret2 == IF ~IsNever(st.accept) THEN Append(ret1, Acc(st.accept)) ELSE ret1
        opt  == LoopOptimization(st.transitions, l.st_idx)
    IN  IF st.transitions # <<>>
        THEN IF ret2 = <<>>
             THEN IF opt.some
                  THEN ret2 \o <<LoopWhile(opt.set), Branch(opt.transitions)>>
                  ELSE Append(ret2, Branch(st.transitions))
             ELSE Append(ret2, Branch(st.transitions))
        ELSE IF ret2 = <<>>
             THEN Append(ret2, Reject)
             ELSE ret2

\* build_chain with the bug of pushing the Acc of the last state after its
\* Branch.
BuildChainAccAfterBranch(d, head, rev) ==
    LET l    == BuildChainLinks(d, head, rev, <<>>, <<>>)
        st   == d.states[l.st_idx]
        ret1 == IF l.lit_in_progress # <<>>
                THEN Append(l.ret, Literal(l.lit_in_progress)) ELSE l.ret
        acc  == IF ~IsNever(st.accept) THEN <<Acc(st.accept)>> ELSE <<>>
        opt  == LoopOptimization(st.transitions, l.st_idx)
    IN  IF st.transitions # <<>>
        THEN IF ret1 \o acc = <<>>
             THEN IF opt.some
                  THEN <<LoopWhile(opt.set), Branch(opt.transitions)>>
                  ELSE <<Branch(st.transitions)>>
             ELSE Append(ret1, Branch(st.transitions)) \o acc
        ELSE IF ret1 \o acc = <<>> \/ acc # <<Acc(AcceptAlways)>>
             THEN Append(ret1 \o acc, Reject)
             ELSE ret1 \o acc

\* Dfa::build_chain
BuildChain(d, head, rev) ==
    LET l    == BuildChainLinks(d, head, rev, <<>>, <<>>)
        st   == d.states[l.st_idx]
        ret1 == IF l.lit_in_progress # <<>>
                THEN Append(l.ret, Literal(l.lit_in_progress)) ELSE l.ret
        ret2 == IF ~IsNever(st.accept) THEN Append(ret1, Acc(st.accept)) ELSE ret1
        opt  == LoopOptimization(st.transitions, l.st_idx)
    IN  IF st.transitions # <<>>
        THEN IF ret2 = <<>>
             THEN IF opt.some
                  THEN ret2 \o <<LoopWhile(opt.set), Branch(opt.transitions)>>
                  ELSE Append(ret2, Branch(st.transitions))
             ELSE Append(ret2, Branch(st.transitions))
        ELSE IF ret2 = <<>> \/ ret2[Len(ret2)] # Acc(AcceptAlways)
             THEN Append(ret2, Reject)
             ELSE ret2

\* Dfa::chains: the chains in the order of their heads, the chain of every
\* head, and the accumulated lengths of the chains.
Chains(d) ==
    LET rev   == Reversed(d)
        heads == SelectSeq([i \in 1..NumStates(d) |-> i],
                           LAMBDA st_idx : IsChainHead(d, st_idx, rev))
        chains == [k \in DOMAIN heads |-> BuildChain(d, heads[k], rev)]
        RECURSIVE Total(_)
        Total(k) == IF k = 0 THEN 0 ELSE Total(k - 1) + Len(chains[k])
    IN  [chains  |-> chains,
         map     |-> [st_idx \in Range(heads) |->
                         CHOOSE k \in DOMAIN heads : heads[k] = st_idx],
         lengths |-> [k \in DOMAIN heads |-> Total(k - 1)]]

\* CharMap::map_values
MapValues(cm, f) == [i \in DOMAIN cm |-> <<cm[i][1], cm[i][2], f[cm[i][3]]>>]

\* The searchers make_runner builds: ByteSearcher(b), StrSearcher(lit),
\* SearchThenMatch(ByteSearcher(b), set), RepeatUntil(set) and an AsciiSet.
NoSearcher == [kind |-> "none", byte |-> 0, lit |-> <<>>, aset |-> {}, xset |-> NoSet]

ByteSearcher(b) == [NoSearcher EXCEPT !.kind = "ByteSearcher", !.byte = b]

StrSearcher(lit) == [NoSearcher EXCEPT !.kind = "StrSearcher", !.lit = lit]

SearchThenMatch(b, set) ==
    [NoSearcher EXCEPT !.kind = "SearchThenMatch", !.byte = b, !.aset = set]

RepeatUntil(set) == [NoSearcher EXCEPT !.kind = "RepeatUntil", !.xset = set]

AsciiSetSearcher(set) == [NoSearcher EXCEPT !.kind = "AsciiSet", !.aset = set]

\* struct SlowRunner
SlowRunner == [kind |-> "SlowRunner", rewind |-> FALSE, start_state |-> 0,
               searcher |-> NoSearcher]

\* struct FastRunner, as the fn fast of make_runner builds it
FastRunner(search, st, rewind) ==
    [kind |-> "FastRunner", rewind |-> rewind, start_state |-> st, searcher |-> search]

\* Program::new
ProgramNew == [insts |-> <<>>, init_at_start |-> None, init_after_char |-> <<>>,
               init_otherwise |-> None, runner |-> SlowRunner]

\* map_state with the bug of returning the number of the chain instead of
\* the offset of its first instruction.
MapStateChainNumber(ch, s) == ch.map[s]

\* map_state of Dfa::to_program: the offset of the chain that state s heads
MapState(ch, s) == ch.lengths[ch.map[s]] + 1

\* The chain c with the targets of its last instruction, a Branch, mapped to
\* instruction offsets.
MapBranch(ch, c) ==
    IF c # <<>> /\ c[Len(c)].op = "Branch"
    THEN [c EXCEPT ![Len(c)] = Branch(MapValues(c[Len(c)].cm, [s \in DOMAIN ch.map |-> MapState(ch, s)]))]
    ELSE c

\* Dfa::to_program, from the chains ch of d
ProgramOf(d, ch) ==
    [insts |-> Concat([k \in DOMAIN ch.chains |-> MapBranch(ch, ch.chains[k])]),
     init_at_start |-> IF d.init_at_start = None THEN None
                       ELSE MapState(ch, d.init_at_start),
     init_after_char |-> MapValues(d.init_after_char, [s \in DOMAIN ch.map |-> MapState(ch, s)]),
     init_otherwise |-> IF d.init_otherwise = None THEN None
                        ELSE MapState(ch, d.init_otherwise),
     runner |-> SlowRunner]

\* Dfa::to_program
ToProgram(d) == ProgramOf(d, Chains(d))

\* ExtAsciiSet::complement
Complement(set) ==
    [set |-> (0..127) \ set.set, contains_non_ascii |-> ~set.contains_non_ascii]

\* Program::ascii_set: the AsciiSet of a Char or Branch whose characters are
\* all ASCII, as <<TRUE, set>>; <<FALSE, {}>> for None.
AsciiSetOf(p, st) ==
    LET inst == p.insts[st]
        cs   == IF inst.op = "Char" THEN inst.cs
                ELSE IF inst.op = "Branch" THEN ToCharSet(inst.cm) ELSE <<>>
    IN  IF inst.op \in {"Char", "Branch"} /\ IsAscii(cs)
        THEN <<TRUE, ToAsciiSet(cs)>>
        ELSE <<FALSE, {}>>

\* make_runner, the match on self.insts[state] for the one start state st.
RunnerFor(p, st) ==
    LET inst == p.insts[st]
    IN  CASE inst.op = "Literal" ->
               IF Len(inst.lit) = 1
               THEN IF AsciiSetOf(p, st + 1)[1]
                    THEN FastRunner(SearchThenMatch(inst.lit[1], AsciiSetOf(p, st + 1)[2]),
                                    st, TRUE)
                    ELSE FastRunner(ByteSearcher(inst.lit[1]), st + 1, FALSE)
               ELSE FastRunner(StrSearcher(inst.lit), st + 1, FALSE)
          [] inst.op = "LoopWhile" ->
               FastRunner(RepeatUntil(Complement(inst.set)), st + 1, FALSE)
          [] inst.op = "Char" /\ IsAscii(inst.cs) ->
               FastRunner(AsciiSetSearcher(ToAsciiSet(inst.cs)), st + 1, FALSE)
          [] inst.op = "Branch" /\ IsAscii(ToCharSet(inst.cm)) ->
               FastRunner(AsciiSetSearcher(ToAsciiSet(ToCharSet(inst.cm))), st, TRUE)
          [] OTHER -> SlowRunner

\* make_runner with the bug of not looking at init_after_char.
MakeRunnerAnyInitAfterChar(p) ==
    IF p.init_at_start = p.init_otherwise /\ p.init_at_start # None
    THEN RunnerFor(p, p.init_at_start)
    ELSE SlowRunner

\* Program::make_runner
MakeRunner(p) ==
    IF p.init_after_char = <<>> /\ p.init_at_start = p.init_otherwise /\ p.init_at_start # None
    THEN RunnerFor(p, p.init_at_start)
    ELSE SlowRunner

(***************************************************************************)
(* The state of the model.                                                 *)
(***************************************************************************)
VARIABLES
    dfa,        \* the Dfa at hand
    dfa_in,     \* Dfa::minimize: self, the Dfa being minimized
    partition,  \* Dfa::minimize: the partition, a sequence of sets of states
    distinguishers, \* Dfa::minimize: the worklist, a set of sets of states
    round,      \* the number of calls of Dfa::minimize so far
    prog,       \* the Program compiled from it
    input,      \* the haystack of the running shortest_match call (UTF-8 bytes)
    pc,         \* where the engine is: "dfa", "ready", "interp", "ret", "done"
    rphase,     \* SlowRunner::run: "at_start" or "loop", the call being waited for
    rpos,       \* SlowRunner::run: pos, the offset of the start being tried
    state,      \* shortest_match_from: the instruction index
    s_off,      \* shortest_match_from: the offset of the slice s in the input
    init_pos,   \* shortest_match_from: the offset at which it was entered
    ret,        \* shortest_match_from: its return value
    result,     \* shortest_match: its return value
    tried,      \* the calls of shortest_match_from so far: <<offset, instruction>>
    parked,     \* the locals of the shortest_match calls of the threads not running
    auto,       \* automaton.rs: the Automaton at hand
    auto_in,    \* automaton.rs: self, the Automaton an operation was applied to
    apartition, \* Automaton::minimize: the partition, a set of sets of states
    adistinguishers, \* Automaton::minimize: the worklist
    word,       \* Automaton::execute: the characters of its argument
    accepted,   \* Automaton::execute: its return value
    nfa,        \* from_regex_bounded: the Nfa of the regex
    max_states, \* from_regex_bounded: the budget
    err,        \* from_regex_bounded: the error returned, "" for none
    it,         \* searcher.rs: the iterator at hand
    items       \* searcher.rs: what the calls of next have returned so far

\* The variables of the threads that wait, of automaton.rs, of from_regex_bounded
\* and of searcher.rs.
ParVars == <<parked>>

AutoVars == <<auto, auto_in, apartition, adistinguishers, word, accepted>>

BuildVars == <<nfa, max_states, err>>

SearchVars == <<it, items>>

ExtVars == <<ParVars, AutoVars, BuildVars, SearchVars>>

vars == <<dfa, dfa_in, partition, distinguishers, round, prog, input, pc, rphase, rpos, state, s_off, init_pos, ret, result, tried, ExtVars>>

\* Option<usize> and Option<(usize, usize)>
NoneEnd == [some |-> FALSE, end |-> 0]

SomeEnd(e) == [some |-> TRUE, end |-> e]

NoneSpan == [some |-> FALSE, start |-> 0, end |-> 0]

SomeSpan(s, e) == [some |-> TRUE, start |-> s, end |-> e]

(***************************************************************************)
(* The Dfas and the inputs the model draws from.                           *)
(***************************************************************************)
ChA == 97

ChB == 98

ChH == 1492

InputChars == {ChA, ChB, ChH}

\* The haystacks: every string of at most MaxLen characters.
Inputs ==
    {Concat([i \in DOMAIN w |-> EncodeUtf8(w[i])]) :
        w \in UNION {[1..k -> InputChars] : k \in 0..MaxLen}}

\* Accept values besides never: always, and "at the end of the input or before b".
AcceptEoiOrB == [at_eoi |-> TRUE, at_char |-> <<<<ChB, ChB>>>>]

AcceptMenu == {AcceptNever, AcceptAlways, AcceptEoiOrB}

\* The transitions of state q, built with add_transition in increasing order of
\* range: lo = 0 none, lo = t the single character loR to state t, lo = n + 1 the
\* range ['0', 'z'] back to q itself; hi = 0 none, hi = t the character hiR to t.
TransitionsOf(q, n, lo, hi, loR, hiR) ==
    (IF lo = 0 THEN <<>> ELSE IF lo = n + 1 THEN <<<<48, 122, q>>>> ELSE <<<<loR, loR, lo>>>>)
    \o (IF hi = 0 THEN <<>> ELSE <<<<hiR, hiR, hi>>>>)

\* The initial triples tried for a Dfa of n states.
InitMenu(n) ==
    IF n = 0 THEN {<<None, <<>>, None>>}
    ELSE LET two == IF n >= 2 THEN 2 ELSE 1
         IN  {<<1, <<>>, None>>,
              <<1, <<>>, 1>>,
              <<None, <<<<ChB, ChB, 1>>>>, two>>,
              <<1, <<<<ChA, ChA, two>>>>, None>>}

\* The choices <<lo, hi>> of TransitionsOf for the n states: at most maxTrans
\* transitions in all, on one character only when his = 0.
TransitionChoices(n, wide, his, maxTrans) ==
    {x \in [1..n -> 0..(n + wide)] \X [1..n -> 0..(n * his)] :
        Cardinality({q \in 1..n : x[1][q] # 0})
        + Cardinality({q \in 1..n : x[2][q] # 0}) <= maxTrans}

\* The Accept values of the n states: at most maxAcc of them are not never.
AcceptChoices(n, maxAcc) ==
    {f \in [1..n -> AcceptMenu] :
        Cardinality({q \in 1..n : f[q] # AcceptNever}) <= maxAcc}

\* Dfa::add_state, Dfa::add_transition and the public init_* fields, applied
\* to Dfa::new(): the Dfa of n states with the transitions tc, the Accept
\* values ac and the initial triple ini.
DfaOf(n, loR, hiR, tc, ac, ini) ==
    [states |-> [q \in 1..n |->
                    [transitions |-> TransitionsOf(q, n, tc[1][q], tc[2][q], loR, hiR),
                     accept |-> ac[q]]],
     init_at_start |-> ini[1], init_after_char |-> ini[2], init_otherwise |-> ini[3]]

\* dfa is one of the Dfas with a number of states in ns, at most maxTrans
\* transitions and at most maxAcc accepting states.
DfaIn(ns, loR, hiR, wide, his, maxTrans, maxAcc, inits) ==
    \E n \in ns :
        \E tc \in TransitionChoices(n, wide, his, maxTrans) :
            \E ac \in AcceptChoices(n, maxAcc) :
                \E ini \in inits[n] :
                    dfa = DfaOf(n, loR, hiR, tc, ac, ini)

(***************************************************************************)
(* Program: the interpreter shortest_match_from, one action per instruction.*)
(***************************************************************************)
CurInst == prog.insts[state]

Interpreting(op) == pc = "interp" /\ state \in DOMAIN prog.insts /\ CurInst.op = op

Return(r) ==
    /\ ret' = r
    /\ pc' = "ret"
    /\ UNCHANGED <<state, s_off>>

Continue(next_state, next_off) ==
    /\ state' = next_state
    /\ s_off' = next_off
    /\ UNCHANGED <<ret, pc>>

MinVars == <<dfa_in, partition, distinguishers, round>>

InterpFrame == <<dfa, MinVars, prog, input, rphase, rpos, init_pos, result, tried, ExtVars>>

InstReject ==
    /\ Interpreting("Reject")
    /\ Return(NoneEnd)
    /\ UNCHANGED InterpFrame

\* InstAcc with the bug of consuming the character the Accept looked at.
InstAccConsuming ==
    /\ Interpreting("Acc")
    /\ LET c == CharAt(input, s_off)
       IN  IF Accepts(CurInst.acc, c)
           THEN Return(SomeEnd(s_off - init_pos + (IF c = NoChar THEN 0 ELSE LenUtf8(c))))
           ELSE Continue(state + 1, s_off)
    /\ UNCHANGED InterpFrame

InstAcc ==
    /\ Interpreting("Acc")
    /\ IF Accepts(CurInst.acc, CharAt(input, s_off))
       THEN Return(SomeEnd(s_off - init_pos))
       ELSE Continue(state + 1, s_off)
    /\ UNCHANGED InterpFrame

\* InstChar with the bug of going on with the next instruction when the
\* character is not in the set.
InstCharNoReturn ==
    /\ Interpreting("Char")
    /\ LET next_ch == CharAt(input, s_off)
       IN  IF next_ch # NoChar /\ CharSetContains(CurInst.cs, next_ch)
           THEN Continue(state + 1, s_off + LenUtf8(next_ch))
           ELSE Continue(state + 1, s_off)
    /\ UNCHANGED InterpFrame

InstChar ==
    /\ Interpreting("Char")
    /\ LET next_ch == CharAt(input, s_off)
       IN  IF next_ch # NoChar /\ CharSetContains(CurInst.cs, next_ch)
           THEN Continue(state + 1, s_off + LenUtf8(next_ch))
           ELSE Return(NoneEnd)
    /\ UNCHANGED InterpFrame

InstLiteral ==
    /\ Interpreting("Literal")
    /\ IF StartsWith(input, s_off, CurInst.lit)
       THEN Continue(state + 1, s_off + Len(CurInst.lit))
       ELSE Return(NoneEnd)
    /\ UNCHANGED InterpFrame

\* InstBranch with the bug of jumping without consuming the character.
InstBranchNoConsume ==
    /\ Interpreting("Branch")
    /\ LET next_ch == CharAt(input, s_off)
           next_state == IF next_ch = NoChar THEN None ELSE CharMapGet(CurInst.cm, next_ch)
       IN  IF next_state # None
           THEN Continue(next_state, s_off)
           ELSE Return(NoneEnd)
    /\ UNCHANGED InterpFrame

InstBranch ==
    /\ Interpreting("Branch")
    /\ LET next_ch == CharAt(input, s_off)
           next_state == IF next_ch = NoChar THEN None ELSE CharMapGet(CurInst.cm, next_ch)
       IN  IF next_state # None
           THEN Continue(next_state, s_off + LenUtf8(next_ch))
           ELSE Return(NoneEnd)
    /\ UNCHANGED InterpFrame

\* ExtAsciiSet::contains_byte
ContainsByte(set, b) ==
    IF set.contains_non_ascii THEN b >= 128 \/ b \in set.set ELSE b \in set.set

\* InstLoopWhile with the bug of not advancing over the bytes of the set.
InstLoopWhileNoAdvance ==
    /\ Interpreting("LoopWhile")
    /\ LET stops == {p \in s_off..(Len(input) - 1) : ~ContainsByte(CurInst.set, input[p + 1])}
       IN  IF stops # {}
           THEN Continue(state + 1, s_off)
           ELSE Return(NoneEnd)
    /\ UNCHANGED InterpFrame

InstLoopWhile ==
    /\ Interpreting("LoopWhile")
    /\ LET stops == {p \in s_off..(Len(input) - 1) : ~ContainsByte(CurInst.set, input[p + 1])}
       IN  IF stops # {}
           THEN Continue(state + 1, Min(stops))
           ELSE Return(NoneEnd)
    /\ UNCHANGED InterpFrame

(***************************************************************************)
(* SlowRunner::run and Program::shortest_match.                            *)
(***************************************************************************)
\* state_after with the bug of ignoring init_after_char.
StateAfterOtherwise(p, ch) == p.init_otherwise

\* Program::state_after
StateAfter(p, ch) ==
    LET st == CharMapGet(p.init_after_char, ch)
    IN  IF st # None THEN st ELSE p.init_otherwise

\* The call prog.shortest_match_from(&s[pos..], st).
Call(pos, st, phase) ==
    /\ pc' = "interp"
    /\ rphase' = phase
    /\ rpos' = pos
    /\ state' = st
    /\ s_off' = pos
    /\ init_pos' = pos
    /\ tried' = Append(tried, <<pos, st>>)
    /\ UNCHANGED <<ret, result>>

Finish(r) ==
    /\ pc' = "done"
    /\ result' = r
    /\ UNCHANGED <<rphase, rpos, state, s_off, init_pos, ret, tried>>

\* The loop `for ch in s.chars()` entered with pos = p: the offset after the
\* next character whose state_after is not None, Len(s) + 1 when there is none.
RECURSIVE NextStart(_, _, _)
NextStart(p, s, pos) ==
    IF pos >= Len(s) THEN Len(s) + 1
    ELSE LET ch == CharAt(s, pos)
         IN  IF StateAfter(p, ch) # None THEN pos + LenUtf8(ch)
             ELSE NextStart(p, s, pos + LenUtf8(ch))

\* The character that ends just before offset pos > 0.
CharBefore(s, pos) ==
    CharAt(s, CHOOSE q \in 0..(pos - 1) :
                  CharAt(s, q) # NoChar /\ q + LenUtf8(CharAt(s, q)) = pos)

SlowLoop(s, pos) ==
    LET next == NextStart(prog, s, pos)
    IN  IF next > Len(s) THEN Finish(NoneSpan)
        ELSE Call(next, StateAfter(prog, CharBefore(s, next)), "loop")

SlowAfterStart(s) ==
    IF prog.init_otherwise = None /\ prog.init_after_char = <<>>
    THEN Finish(NoneSpan)
    ELSE SlowLoop(s, 0)

\* SlowRunnerRun with the bug of taking instruction 0 for a missing
\* init_at_start (unwrap_or(0)) instead of skipping the attempt at the start.
SlowRunnerRunFromZero ==
    /\ pc = "ready"
    /\ prog.runner.kind = "SlowRunner"
    /\ \E s \in Inputs :
        /\ input' = s
        /\ Call(0, IF prog.init_at_start # None THEN prog.init_at_start ELSE 1, "at_start")
    /\ UNCHANGED <<dfa, MinVars, prog, ExtVars>>

\* Program::shortest_match with the SlowRunner, up to its first call of the
\* interpreter.
SlowRunnerRun ==
    /\ pc = "ready"
    /\ prog.runner.kind = "SlowRunner"
    /\ \E s \in Inputs :
        /\ input' = s
        /\ IF prog.init_at_start # None
           THEN Call(0, prog.init_at_start, "at_start")
           ELSE SlowAfterStart(s)
    /\ UNCHANGED <<dfa, MinVars, prog, ExtVars>>

\* SlowRunnerResume with the bug of reporting the end relative to the slice
\* the interpreter ran on, (pos, end) for (pos, pos + end).
SlowRunnerResumeSliceEnd ==
    /\ pc = "ret"
    /\ prog.runner.kind = "SlowRunner"
    /\ IF ret.some
       THEN Finish(SomeSpan(rpos, ret.end))
       ELSE IF rphase = "at_start" THEN SlowAfterStart(input) ELSE SlowLoop(input, rpos)
    /\ UNCHANGED <<dfa, MinVars, prog, input, ExtVars>>

\* SlowRunnerResume with the bug of trying init_at_start again at the next
\* character after a failure at the start.
SlowRunnerResumeNextStart ==
    /\ pc = "ret"
    /\ prog.runner.kind = "SlowRunner"
    /\ IF ret.some
       THEN Finish(SomeSpan(rpos, rpos + ret.end))
       ELSE IF rphase = "at_start"
            THEN IF rpos < Len(input)
                 THEN Call(rpos + LenUtf8(CharAt(input, rpos)), prog.init_at_start, "at_start")
                 ELSE SlowAfterStart(input)
            ELSE SlowLoop(input, rpos)
    /\ UNCHANGED <<dfa, MinVars, prog, input, ExtVars>>

\* SlowRunner::run from the return of a call of the interpreter to the next.
SlowRunnerResume ==
    /\ pc = "ret"
    /\ prog.runner.kind = "SlowRunner"
    /\ IF ret.some
       THEN Finish(SomeSpan(rpos, rpos + ret.end))
       ELSE IF rphase = "at_start" THEN SlowAfterStart(input) ELSE SlowLoop(input, rpos)
    /\ UNCHANGED <<dfa, MinVars, prog, input, ExtVars>>

\* Dfa::to_program
CompileToProgram ==
    /\ pc = "dfa"
    /\ prog' = ToProgram(dfa)
    /\ pc' = "ready"
    /\ UNCHANGED <<dfa, MinVars, input, rphase, rpos, state, s_off, init_pos, ret, result, tried,
                   ExtVars>>

\* Program::from_regex_bounded after Dfa::from_regex_bounded: to_program, then
\* the runner make_runner chooses.
ProgramFromDfa ==
    /\ pc = "dfa"
    /\ prog' = [ToProgram(dfa) EXCEPT !.runner = MakeRunner(ToProgram(dfa))]
    /\ pc' = "ready"
    /\ UNCHANGED <<dfa, MinVars, input, rphase, rpos, state, s_off, init_pos, ret, result, tried,
                   ExtVars>>

(***************************************************************************)
(* FastRunner::run.  The pairs the searcher's iterator has still to yield  *)
(* are in items, the one the loop is at first.                             *)
(***************************************************************************)
\* Searcher::iter for the searchers of make_runner: the pairs (start, end) in
\* the order the iterator yields them.
RECURSIVE RepeatUntilIter(_, _, _)
RepeatUntilIter(stop, s, pos) ==
    LET stops == {q \in pos..(Len(s) - 1) : ContainsByte(stop, s[q + 1])}
    IN  IF stops = {} THEN <<>>
        ELSE LET q == Min(stops)
             IN  <<<<pos, q>>>> \o RepeatUntilIter(stop, s, q + LenUtf8(CharAt(s, q)))

SearcherIter(sr, s) ==
    LET offsets == [i \in 1..Len(s) |-> i - 1]
        sel == CASE sr.kind = "ByteSearcher" ->
                      SelectSeq(offsets, LAMBDA i : s[i + 1] = sr.byte)
                 [] sr.kind = "SearchThenMatch" ->
                      SelectSeq(offsets, LAMBDA i : /\ s[i + 1] = sr.byte
                                                    /\ i + 1 < Len(s)
                                                    /\ s[i + 2] \in sr.aset)
                 [] sr.kind = "AsciiSet" ->
                      SelectSeq(offsets, LAMBDA i : s[i + 1] \in sr.aset)
                 [] sr.kind = "StrSearcher" ->
                      SelectSeq(offsets, LAMBDA i : StartsWith(s, i, sr.lit))
                 [] OTHER -> <<>>
        width == IF sr.kind = "StrSearcher" THEN Len(sr.lit) ELSE 1
    IN  IF sr.kind = "RepeatUntil" THEN RepeatUntilIter(sr.xset, s, 0)
        ELSE [k \in DOMAIN sel |-> <<sel[k], sel[k] + width>>]

FastFrame == <<dfa, MinVars, prog, ParVars, AutoVars, BuildVars, it>>

\* The body of the loop for the pair at the head of cands, None after the
\* last pair.
FastLoop(cands) ==
    /\ items' = cands
    /\ IF cands = <<>>
       THEN Finish(NoneSpan)
       ELSE Call(IF prog.runner.rewind THEN cands[1][1] ELSE cands[1][2],
                 prog.runner.start_state, "fast")

\* Program::shortest_match with a FastRunner, up to its first call of the
\* interpreter.
FastRunnerRun ==
    /\ pc = "ready"
    /\ prog.runner.kind = "FastRunner"
    /\ \E s \in Inputs :
        /\ input' = s
        /\ FastLoop(SearcherIter(prog.runner.searcher, s))
    /\ UNCHANGED FastFrame

\* FastRunnerResume with the bug of reporting the position the interpreter
\* started from as the start of the match.
FastRunnerResumeFromPos ==
    /\ pc = "ret"
    /\ prog.runner.kind = "FastRunner"
    /\ IF ret.some
       THEN Finish(SomeSpan(rpos, ret.end + rpos)) /\ UNCHANGED items
       ELSE FastLoop(Tail(items))
    /\ UNCHANGED <<FastFrame, input>>

\* FastRunnerResume with the bug of adding the end the interpreter returned to
\* the start of the candidate, not to the position it was called at.
FastRunnerResumeEndFromStart ==
    /\ pc = "ret"
    /\ prog.runner.kind = "FastRunner"
    /\ IF ret.some
       THEN Finish(SomeSpan(items[1][1], ret.end + items[1][1])) /\ UNCHANGED items
       ELSE FastLoop(Tail(items))
    /\ UNCHANGED <<FastFrame, input>>

\* FastRunner::run from the return of a call of the interpreter to the next.
FastRunnerResume ==
    /\ pc = "ret"
    /\ prog.runner.kind = "FastRunner"
    /\ IF ret.some
       THEN Finish(SomeSpan(items[1][1], ret.end + rpos)) /\ UNCHANGED items
       ELSE FastLoop(Tail(items))
    /\ UNCHANGED <<FastFrame, input>>

\* No other thread has called shortest_match.
ParIdle == parked = <<>>

\* Automaton::new(), nothing applied to it.
AutoIdle ==
    /\ auto = [states |-> <<>>, initial |-> 1]
    /\ auto_in = [states |-> <<>>, initial |-> 1]
    /\ apartition = {}
    /\ adistinguishers = {}
    /\ word = <<>>
    /\ accepted = FALSE

\* from_regex_bounded was not called.
BuildIdle ==
    /\ nfa = [states |-> <<>>]
    /\ max_states = 0
    /\ err = ""

\* No iterator of searcher.rs was made.
SearchIdle ==
    /\ it = [kind |-> "none"]
    /\ items = <<>>

\* The variables of the engine before anything ran.
EngineLocals ==
    /\ dfa_in = DfaNew
    /\ partition = <<>>
    /\ distinguishers = {}
    /\ round = 0
    /\ prog = ProgramNew
    /\ input = <<>>
    /\ rphase = "at_start"
    /\ rpos = 0
    /\ state = None
    /\ s_off = 0
    /\ init_pos = 0
    /\ ret = NoneEnd
    /\ result = NoneSpan
    /\ tried = <<>>

\* The engine with a Dfa at hand, before anything ran on it.
EngineIdle == EngineLocals /\ pc = "dfa"

Idle == EngineIdle /\ ParIdle /\ AutoIdle /\ BuildIdle /\ SearchIdle

InitRun ==
    /\ DfaIn(0..MaxStates, ChA, ChH, 1, 1, MaxTrans, 1,
             [n \in 0..MaxStates |-> InitMenu(n)])
    /\ Idle

NextRun ==
    \/ CompileToProgram
    \/ SlowRunnerRun
    \/ SlowRunnerResume
    \/ InstReject
    \/ InstAcc
    \/ InstChar
    \/ InstLiteral
    \/ InstBranch
    \/ InstLoopWhile

SpecRun == InitRun /\ [][NextRun]_vars

(***************************************************************************)
(* Several callers of shortest_match on one Program.  Program::            *)
(* shortest_match and shortest_match_from take &self: the Program is       *)
(* shared, and everything a call writes is a local of that call.  The      *)
(* thread that runs has its locals in the variables of the interpreter;    *)
(* the locals of the other threads wait in parked.                         *)
(***************************************************************************)
MaxThreads == 2

ParStates == 2

ParTrans == 2

\* The locals of the running call.
Locals ==
    [input |-> input, pc |-> pc, rphase |-> rphase, rpos |-> rpos, state |-> state,
     s_off |-> s_off, init_pos |-> init_pos, ret |-> ret, result |-> result,
     tried |-> tried]

\* The locals of a thread that has not called shortest_match yet.
FreshLocals ==
    [input |-> <<>>, pc |-> "ready", rphase |-> "at_start", rpos |-> 0, state |-> None,
     s_off |-> 0, init_pos |-> 0, ret |-> NoneEnd, result |-> NoneSpan, tried |-> <<>>]

\* The thread with the locals l runs next.
Resume(l) ==
    /\ input' = l.input
    /\ pc' = l.pc
    /\ rphase' = l.rphase
    /\ rpos' = l.rpos
    /\ state' = l.state
    /\ s_off' = l.s_off
    /\ init_pos' = l.init_pos
    /\ ret' = l.ret
    /\ result' = l.result
    /\ tried' = l.tried

\* One more thread is given the Program.
ThreadSpawn ==
    /\ pc \notin {"dfa", "minimize"}
    /\ Len(parked) + 1 < MaxThreads
    /\ parked' = Append(parked, Locals)
    /\ Resume(FreshLocals)
    /\ UNCHANGED <<dfa, MinVars, prog, AutoVars, BuildVars, SearchVars>>

\* ThreadSwitch with the bug of an instruction index that belongs to the
\* Program instead of the call: the thread that resumes finds the index the
\* other thread left.
ThreadSwitchSharedState ==
    /\ pc \notin {"dfa", "minimize"}
    /\ \E i \in DOMAIN parked :
          /\ parked' = [parked EXCEPT ![i] = Locals]
          /\ Resume([parked[i] EXCEPT !.state = state])
    /\ UNCHANGED <<dfa, MinVars, prog, AutoVars, BuildVars, SearchVars>>

\* The scheduler lets another thread run: no call writes anything but its own
\* locals, so a switch changes nothing else.
ThreadSwitch ==
    /\ pc \notin {"dfa", "minimize"}
    /\ \E i \in DOMAIN parked :
          /\ parked' = [parked EXCEPT ![i] = Locals]
          /\ Resume(parked[i])
    /\ UNCHANGED <<dfa, MinVars, prog, AutoVars, BuildVars, SearchVars>>

\* The initial triple of the Programs that are shared: an unanchored search.
ParInitMenu(n) == {<<1, <<>>, 1>>}

\* The Dfas compiled into the shared Program: ParStates states, the last of
\* which accepts.
InitPar ==
    /\ DfaIn({ParStates}, ChA, ChH, 1, 1, ParTrans, 1,
             [n \in {ParStates} |-> ParInitMenu(n)])
    /\ ~IsNever(dfa.states[ParStates].accept)
    /\ Idle

NextPar ==
    \/ NextRun
    \/ ThreadSpawn
    \/ ThreadSwitch

SpecPar == InitPar /\ [][NextPar]_vars

(***************************************************************************)
(* Dfa::minimize, one action per iteration of its worklist loop.           *)
(***************************************************************************)
\* SplitSet::split for BitSet: Option<(BitSet, BitSet)>, <<>> for None.
Split(self, other) ==
    IF (self \cap other # {}) /\ ~(self \subseteq other)
    THEN <<self \cap other, self \ other>>
    ELSE <<>>

\* accept_partition with the bug of telling apart only the states that never
\* accept from the others, whatever their Accept value.
AcceptPartitionTwoClasses(d) ==
    LET idxs == 1..NumStates(d)
    IN  [nevers |-> {i \in idxs : d.states[i].accept = AcceptNever},
         others |-> {{j \in idxs : ~IsNever(d.states[j].accept)}} \ {{}}]

\* Dfa::accept_partition: the states that never accept, and the classes of the
\* other states by Accept value.
AcceptPartition(d) ==
    LET idxs == 1..NumStates(d)
    IN  [nevers |-> {i \in idxs : d.states[i].accept = AcceptNever},
         others |-> {{j \in idxs : d.states[j].accept = d.states[i].accept} :
                        i \in {k \in idxs : ~IsNever(d.states[k].accept)}}]

\* The refinement loop of Dfa::reject_partition: every part is split by s.
RECURSIVE RefineBy(_, _)
RefineBy(parts, s) ==
    IF parts = <<>> THEN <<>>
    ELSE LET sp == Split(Head(parts), s)
         IN  (IF sp # <<>> THEN sp ELSE <<Head(parts)>>) \o RefineBy(Tail(parts), s)

RECURSIVE RefineAll(_, _)
RefineAll(parts, sets) ==
    IF sets = <<>> THEN parts ELSE RefineAll(RefineBy(parts, Head(sets)), Tail(sets))

\* reject_partition with the bug of returning the partition that consists of
\* the empty set when there is no state to partition.
RejectPartitionOfEmpty(d, states) ==
    LET rejects(idx) == Negated(ToCharSet(d.states[idx].transitions))
        all_rejects == UNION {{<<rejects(idx)[k][1], rejects(idx)[k][2], idx>> :
                                   k \in DOMAIN rejects(idx)} : idx \in states}
        grouped == Group(all_rejects)
        sets == [k \in DOMAIN grouped |-> grouped[k][3]]
    IN  RefineAll(<<states>>, sets)

\* Dfa::reject_partition
RejectPartition(d, states) ==
    IF states = {} THEN <<>>
    ELSE LET rejects(idx) == Negated(ToCharSet(d.states[idx].transitions))
             all_rejects == UNION {{<<rejects(idx)[k][1], rejects(idx)[k][2], idx>> :
                                        k \in DOMAIN rejects(idx)} : idx \in states}
             grouped == Group(all_rejects)
             sets == [k \in DOMAIN grouped |-> grouped[k][3]]
         IN  RefineAll(<<states>>, sets)

\* reversed.transitions(&dist), the sets only: for every atom of characters, in
\* increasing order, the states with a transition on it into dist.
TransitionsInto(d, dist) ==
    LET into == UNION {{<<d.states[idx].transitions[k][1],
                          d.states[idx].transitions[k][2], idx>> :
                            k \in {j \in DOMAIN d.states[idx].transitions :
                                      d.states[idx].transitions[j][3] \in dist}} :
                        idx \in 1..NumStates(d)}
        grouped == Group(into)
    IN  [k \in DOMAIN grouped |-> grouped[k][3]]

\* The loop over the partition with the bug of leaving the worklist alone when
\* the set that is split is not in it.
RECURSIVE SplitPartitionNoInsert(_, _, _, _)
SplitPartitionNoInsert(parts, s, next_partition, dists) ==
    IF parts = <<>> THEN [partition |-> next_partition, distinguishers |-> dists]
    ELSE LET y  == Head(parts)
             sp == Split(y, s)
         IN  IF sp # <<>>
             THEN SplitPartitionNoInsert(Tail(parts), s, next_partition \o sp,
                     IF y \in dists THEN (dists \ {y}) \cup {sp[1], sp[2]} ELSE dists)
             ELSE SplitPartitionNoInsert(Tail(parts), s, Append(next_partition, y), dists)

\* The loop over the partition with the bug of adding the first half when the
\* two halves of a set that is not in the worklist have the same size.
RECURSIVE SplitPartitionFirstOnTie(_, _, _, _)
SplitPartitionFirstOnTie(parts, s, next_partition, dists) ==
    IF parts = <<>> THEN [partition |-> next_partition, distinguishers |-> dists]
    ELSE LET y  == Head(parts)
             sp == Split(y, s)
         IN  IF sp # <<>>
             THEN SplitPartitionFirstOnTie(Tail(parts), s, next_partition \o sp,
                     IF y \in dists THEN (dists \ {y}) \cup {sp[1], sp[2]}
                     ELSE IF Cardinality(sp[1]) <= Cardinality(sp[2])
                          THEN dists \cup {sp[1]}
                          ELSE dists \cup {sp[2]})
             ELSE SplitPartitionFirstOnTie(Tail(parts), s, Append(next_partition, y), dists)

\* The loop over the partition with the bug of leaving a set that is split in
\* the worklist, next to its two halves.
RECURSIVE SplitPartitionKeepStale(_, _, _, _)
SplitPartitionKeepStale(parts, s, next_partition, dists) ==
    IF parts = <<>> THEN [partition |-> next_partition, distinguishers |-> dists]
    ELSE LET y  == Head(parts)
             sp == Split(y, s)
         IN  IF sp # <<>>
             THEN SplitPartitionKeepStale(Tail(parts), s, next_partition \o sp,
                     IF y \in dists THEN dists \cup {sp[1], sp[2]}
                     ELSE IF Cardinality(sp[1]) < Cardinality(sp[2])
                          THEN dists \cup {sp[1]}
                          ELSE dists \cup {sp[2]})
             ELSE SplitPartitionKeepStale(Tail(parts), s, Append(next_partition, y), dists)

\* The loop `for y in partition.iter()` of Dfa::minimize for one set s.
RECURSIVE SplitPartition(_, _, _, _)
SplitPartition(parts, s, next_partition, dists) ==
    IF parts = <<>> THEN [partition |-> next_partition, distinguishers |-> dists]
    ELSE LET y  == Head(parts)
             sp == Split(y, s)
         IN  IF sp # <<>>
             THEN SplitPartition(Tail(parts), s, next_partition \o sp,
                     IF y \in dists THEN (dists \ {y}) \cup {sp[1], sp[2]}
                     ELSE IF Cardinality(sp[1]) < Cardinality(sp[2])
                          THEN dists \cup {sp[1]}
                          ELSE dists \cup {sp[2]})
             ELSE SplitPartition(Tail(parts), s, Append(next_partition, y), dists)

\* The loop `for s in &sets` of Dfa::minimize.
RECURSIVE SplitBySets(_, _, _)
SplitBySets(sets, parts, dists) ==
    IF sets = <<>> THEN [partition |-> parts, distinguishers |-> dists]
    ELSE LET r == SplitPartition(parts, Head(sets), <<>>, dists)
         IN  SplitBySets(Tail(sets), r.partition, r.distinguishers)

\* The orders in which a HashMap may hand out the sets of S.
Orders(S) == {f \in [1..Cardinality(S) -> S] : \A i, j \in DOMAIN f : i # j => f[i] # f[j]}

\* Dfa::minimize up to its worklist loop.
MinimizeBegin ==
    /\ pc = "dfa"
    /\ round < MaxRounds
    /\ LET ap == AcceptPartition(dfa)
           reject_partition == RejectPartition(dfa, ap.nevers)
       IN  \E acc_state_partition \in Orders(ap.others) :
               /\ partition' = acc_state_partition \o reject_partition
               /\ distinguishers' = Range(acc_state_partition \o reject_partition)
    /\ dfa_in' = dfa
    /\ pc' = "minimize"
    /\ UNCHANGED <<dfa, round, prog, input, rphase, rpos, state, s_off, init_pos, ret,
                   result, tried, ExtVars>>

\* The body of the loop with the bug of leaving the popped set in the worklist.
WorklistIterationKeepsDist(dist) ==
    SplitBySets(TransitionsInto(dfa_in, dist), partition, distinguishers)

\* The body of `while distinguishers.len() > 0` once pop_arbitrary has removed
\* and returned dist: the partition and the worklist at the end of it.
WorklistIteration(dist) ==
    SplitBySets(TransitionsInto(dfa_in, dist), partition, distinguishers \ {dist})

\* One iteration of `while distinguishers.len() > 0`; pop_arbitrary picks dist.
MinimizePop ==
    /\ pc = "minimize"
    /\ \E dist \in distinguishers :
          LET r == WorklistIteration(dist)
          IN  /\ partition' = r.partition
              /\ distinguishers' = r.distinguishers
    /\ UNCHANGED <<dfa, dfa_in, round, pc, prog, input, rphase, rpos, state, s_off,
                   init_pos, ret, result, tried, ExtVars>>

\* The re-indexing with the bug of leaving the initial states at their old
\* indices.
ReindexedOldInits(d, parts) ==
    LET old_state_to_new ==
            [st \in 1..NumStates(d) |->
                IF \E k \in DOMAIN parts : st \in parts[k]
                THEN CHOOSE k \in DOMAIN parts : st \in parts[k]
                ELSE 1]
        rep(k) == d.states[Min(parts[k])]
        kept(st) == IF st \in DOMAIN parts THEN st ELSE None
    IN  [states |-> [k \in DOMAIN parts |->
                        [transitions |->
                            Normalize(MapValues(rep(k).transitions, old_state_to_new)),
                         accept |-> rep(k).accept]],
         init_at_start |-> kept(d.init_at_start),
         init_after_char |-> SelectSeq(d.init_after_char, LAMBDA x : x[3] \in DOMAIN parts),
         init_otherwise |-> kept(d.init_otherwise)]

\* The re-indexing with the bug of keeping the old index of the target of
\* every transition.
ReindexedOldTargets(d, parts) ==
    LET old_state_to_new ==
            [st \in 1..NumStates(d) |->
                IF \E k \in DOMAIN parts : st \in parts[k]
                THEN CHOOSE k \in DOMAIN parts : st \in parts[k]
                ELSE 1]
        rep(k) == d.states[Min(parts[k])]
        kept(tr) == SelectSeq(tr, LAMBDA x : x[3] \in DOMAIN parts)
    IN  [states |-> [k \in DOMAIN parts |->
                        [transitions |-> Normalize(kept(rep(k).transitions)),
                         accept |-> rep(k).accept]],
         init_at_start |-> IF d.init_at_start # None
                           THEN old_state_to_new[d.init_at_start] ELSE None,
         init_after_char |-> MapValues(d.init_after_char, old_state_to_new),
         init_otherwise |-> IF d.init_otherwise # None
                            THEN old_state_to_new[d.init_otherwise] ELSE None]

\* The Dfa that Dfa::minimize builds from the final partition.
Reindexed(d, parts) ==
    LET old_state_to_new ==
            [st \in 1..NumStates(d) |->
                IF \E k \in DOMAIN parts : st \in parts[k]
                THEN CHOOSE k \in DOMAIN parts : st \in parts[k]
                ELSE 1]
        rep(k) == d.states[Min(parts[k])]
    IN  [states |-> [k \in DOMAIN parts |->
                        [transitions |->
                            Normalize(MapValues(rep(k).transitions, old_state_to_new)),
                         accept |-> rep(k).accept]],
         init_at_start |-> IF d.init_at_start # None
                           THEN old_state_to_new[d.init_at_start] ELSE None,
         init_after_char |-> MapValues(d.init_after_char, old_state_to_new),
         init_otherwise |-> IF d.init_otherwise # None
                            THEN old_state_to_new[d.init_otherwise] ELSE None]

\* Dfa::minimize after its worklist loop.
MinimizeEnd ==
    /\ pc = "minimize"
    /\ distinguishers = {}
    /\ \A k \in DOMAIN partition : partition[k] # {}
    /\ dfa' = Reindexed(dfa_in, partition)
    /\ round' = round + 1
    /\ pc' = "dfa"
    /\ UNCHANGED <<dfa_in, partition, distinguishers, prog, input, rphase, rpos, state,
                   s_off, init_pos, ret, result, tried, ExtVars>>

\* The initial triple of the Dfas that are minimized: state 1 at the start and
\* by default, state 2 after b; a third or fourth state is initial in none.
MinInitMenu(n) ==
    IF n = 0 THEN {<<None, <<>>, None>>}
    ELSE {<<1, <<<<ChB, ChB, IF n >= 2 THEN 2 ELSE 1>>>>, 1>>}

\* The Dfas that are minimized: those of at most MaxStates states over a and b,
\* and those of MaxUnaryStates states over a alone.
InitMin ==
    /\ \/ DfaIn(0..MaxStates, ChA, ChB, 0, 1, MaxTrans, 2,
                 [n \in 0..MaxStates |-> MinInitMenu(n)])
       \/ DfaIn({MaxUnaryStates}, ChA, ChB, 0, 0, MaxTrans, 2,
                 [n \in {MaxUnaryStates} |-> MinInitMenu(n)])
    /\ Idle

NextMin ==
    \/ MinimizeBegin
    \/ MinimizePop
    \/ MinimizeEnd

SpecMin == InitMin /\ [][NextMin]_vars

\* Dfa::minimize is straight-line code in one thread: while the worklist is not
\* empty the loop takes its next iteration.  This is WF_vars(MinimizePop) with
\* ENABLED <<MinimizePop>>_vars written out as PopEnabled: some set of the
\* worklist can be popped in an iteration that changes the state.
PopEnabled ==
    /\ pc = "minimize"
    /\ \E dist \in distinguishers :
          WorklistIteration(dist)
              # [partition |-> partition, distinguishers |-> distinguishers]

MinimizePopFair ==
    \/ []<>~PopEnabled
    \/ []<><<MinimizePop>>_vars

\* The Dfas whose minimization is followed to its end: those of MaxStates
\* states over a and b.
InitMinLive ==
    /\ DfaIn({MaxStates}, ChA, ChB, 0, 1, MaxTrans, 2,
             [n \in {MaxStates} |-> MinInitMenu(n)])
    /\ Idle

SpecMinLive == InitMinLive /\ [][NextMin]_vars /\ MinimizePopFair

(***************************************************************************)
(* automaton.rs: the Automaton (states with range transitions, eps-        *)
(* transitions and an accepting flag; an initial state), its subset        *)
(* construction, execution, reversal and Hopcroft minimization.  State     *)
(* indices are 1-based here too.  A transition is <<from, to, target>>.    *)
(***************************************************************************)
AutoStates == 3

AutoTrans == 3

AutoLen == 3

\* State::new
StateNew(accepting) == [ranges |-> <<>>, eps |-> <<>>, accepting |-> accepting]

\* Automaton::new and Automaton::with_capacity
AutomatonNew == [states |-> <<>>, initial |-> 1]

\* singleton
Singleton(i) == {i}

\* TransList::find_transition: the target of the first range that holds ch.
FindTransition(ranges, ch) ==
    LET hits == {i \in DOMAIN ranges : ranges[i][1] <= ch /\ ch <= ranges[i][2]}
    IN  IF hits = {} THEN None ELSE ranges[Min(hits)][3]

\* TransList::collect_transition_pairs: the ranges refined into disjoint atoms,
\* each with the set of the targets of the ranges that cover it.
CollectTransitionPairs(ranges) == Group(Range(ranges))

\* TransList::collect_transitions: the sets of targets only.
CollectTransitions(ranges) ==
    LET pairs == CollectTransitionPairs(ranges)
    IN  [k \in DOMAIN pairs |-> pairs[k][3]]

\* The loop of Automaton::eps_closure: closure is ret, the closure so far, and
\* new_states the states found in the last round.
RECURSIVE EpsClosureLoop(_, _, _)
EpsClosureLoop(a, closure, new_states) ==
    LET next_states == UNION {Range(a.states[st].eps) : st \in new_states}
    IN  IF next_states \subseteq closure THEN closure
        ELSE EpsClosureLoop(a, closure \cup (next_states \ closure), next_states \ closure)

\* Automaton::eps_closure
EpsClosure(a, states) == EpsClosureLoop(a, states, states)

\* Automaton::accepting
Accepting(a, states) == \E st \in states : a.states[st].accepting

\* Automaton::transitions: the transitions out of a set of states.
Transitions(a, states) ==
    LET trans == Concat([st \in 1..Len(a.states) |->
                            IF st \in states THEN a.states[st].ranges ELSE <<>>])
        pairs == CollectTransitionPairs(trans)
    IN  [k \in DOMAIN pairs |-> <<pairs[k][1], pairs[k][2], EpsClosure(a, pairs[k][3])>>]

\* The loop `for (range, target) in trans` of Automaton::determinize for the
\* state state_idx: d holds ret.states, the sets of state_map in the order of
\* their indices, and active_states.
RECURSIVE DeterminizeTargets(_, _, _, _)
DeterminizeTargets(a, trans, state_idx, d) ==
    IF trans = <<>> THEN d
    ELSE LET target == Head(trans)[3]
             known  == \E i \in DOMAIN d.state_map : d.state_map[i] = target
             d1 == IF known THEN d
                   ELSE [states |-> Append(d.states, StateNew(Accepting(a, target))),
                         state_map |-> Append(d.state_map, target),
                         active_states |-> Append(d.active_states, target)]
             target_idx == CHOOSE i \in DOMAIN d1.state_map : d1.state_map[i] = target
             d2 == [d1 EXCEPT !.states[state_idx].ranges =
                                  Append(@, <<Head(trans)[1], Head(trans)[2], target_idx>>)]
         IN  DeterminizeTargets(a, Tail(trans), state_idx, d2)

\* The loop `while active_states.len() > 0` of Automaton::determinize.
RECURSIVE DeterminizeLoop(_, _)
DeterminizeLoop(a, d) ==
    IF d.active_states = <<>> THEN d
    ELSE LET top == d.active_states[Len(d.active_states)]
             state_idx == CHOOSE i \in DOMAIN d.state_map : d.state_map[i] = top
             popped == [d EXCEPT !.active_states = SubSeq(@, 1, Len(@) - 1)]
         IN  DeterminizeLoop(a, DeterminizeTargets(a, Transitions(a, top), state_idx, popped))

\* Automaton::determinize
Determinize(a) ==
    LET start_state == EpsClosure(a, Singleton(1))
        d == DeterminizeLoop(a, [states |-> <<StateNew(Accepting(a, start_state))>>,
                                 state_map |-> <<start_state>>,
                                 active_states |-> <<start_state>>])
    IN  [states |-> d.states, initial |-> 1]

\* Automaton::execute from the state `state` on the characters w.
RECURSIVE ExecuteFrom(_, _, _)
ExecuteFrom(a, st, w) ==
    IF w = <<>> THEN a.states[st].accepting
    ELSE LET next_state == FindTransition(a.states[st].ranges, Head(w))
         IN  IF next_state # None THEN ExecuteFrom(a, next_state, Tail(w)) ELSE FALSE

\* Automaton::execute
Execute(a, w) == ExecuteFrom(a, a.initial, w)

\* Automaton::accepting_states, Automaton::non_accepting_states
AcceptingStates(a) == {idx \in 1..Len(a.states) : a.states[idx].accepting}

NonAcceptingStates(a) == {idx \in 1..Len(a.states) : ~a.states[idx].accepting}

\* Automaton::reversed with the bug of a set of transitions per state: a
\* transition that is already there is not pushed again.
AutomatonReversedNoDuplicates(a) ==
    [states |-> [t \in 1..Len(a.states) |->
                    [ranges |-> Concat([idx \in 1..Len(a.states) |->
                                    LET trs == SelectSeq(a.states[idx].ranges,
                                                         LAMBDA r : r[3] = t)
                                        keep == SortedSeq({k \in DOMAIN trs :
                                                    \A j \in 1..(k - 1) : trs[j] # trs[k]})
                                    IN  [k \in DOMAIN keep |->
                                            <<trs[keep[k]][1], trs[keep[k]][2], idx>>]]),
                     eps |-> <<>>,
                     accepting |-> a.states[t].accepting]],
     initial |-> 1]

\* Automaton::reversed with the bug of pushing every transition to the state
\* it leaves, with its own target: a copy without the eps-transitions.
AutomatonReversedSameWay(a) ==
    [states |-> [t \in 1..Len(a.states) |->
                    [ranges |-> a.states[t].ranges,
                     eps |-> <<>>,
                     accepting |-> a.states[t].accepting]],
     initial |-> 1]

\* Automaton::reversed: state t gets, for every state idx in increasing order
\* and every transition of idx into t in the order of its list, that
\* transition with idx for target.
AutomatonReversed(a) ==
    [states |-> [t \in 1..Len(a.states) |->
                    [ranges |-> Concat([idx \in 1..Len(a.states) |->
                                    LET trs == SelectSeq(a.states[idx].ranges,
                                                         LAMBDA r : r[3] = t)
                                    IN  [k \in DOMAIN trs |-> <<trs[k][1], trs[k][2], idx>>]]),
                     eps |-> <<>>,
                     accepting |-> a.states[t].accepting]],
     initial |-> 1]

\* The loop `for y in partition.iter()` of Automaton::minimize for one set s:
\* the next partition and the worklist.  The sets of the partition are
\* disjoint, so the order in which the HashSet hands them out is immaterial.
AutoSplitPartition(parts, s, dists) ==
    LET split == {y \in parts : y \cap s # {} /\ y \ s # {}}
        added(y) == IF y \in dists THEN {y \cap s, y \ s}
                    ELSE IF Cardinality(y \cap s) < Cardinality(y \ s)
                         THEN {y \cap s}
                         ELSE {y \ s}
    IN  [partition |-> (parts \ split) \cup UNION {{y \cap s, y \ s} : y \in split},
         distinguishers |-> (dists \ split) \cup UNION {added(y) : y \in split}]

\* The loop `for s in sets.iter()` of Automaton::minimize.
RECURSIVE AutoSplitBySets(_, _, _)
AutoSplitBySets(sets, parts, dists) ==
    IF sets = <<>> THEN [partition |-> parts, distinguishers |-> dists]
    ELSE LET r == AutoSplitPartition(parts, Head(sets), dists)
         IN  AutoSplitBySets(Tail(sets), r.partition, r.distinguishers)

\* The re-indexing of Automaton::minimize: the classes in the order the
\* HashSet hands them out, each represented by its smallest state.
AutoReindexed(a, order) ==
    LET old_state_to_new == [st \in 1..Len(a.states) |->
                                CHOOSE k \in DOMAIN order : st \in order[k]]
        rep(k) == a.states[Min(order[k])]
    IN  [states |-> [k \in DOMAIN order |->
                        [ranges |-> [i \in DOMAIN rep(k).ranges |->
                                        <<rep(k).ranges[i][1], rep(k).ranges[i][2],
                                          old_state_to_new[rep(k).ranges[i][3]]>>],
                         eps |-> <<>>,
                         accepting |-> rep(k).accepting]],
         initial |-> IF \E k \in DOMAIN order : a.initial \in order[k]
                     THEN CHOOSE k \in DOMAIN order : a.initial \in order[k]
                     ELSE 1]

\* No eps-transition, and the ranges of every state are pairwise disjoint.
IsDeterministic(a) ==
    \A st \in DOMAIN a.states :
        /\ a.states[st].eps = <<>>
        /\ \A i, j \in DOMAIN a.states[st].ranges :
              i # j => \/ a.states[st].ranges[i][2] < a.states[st].ranges[j][1]
                       \/ a.states[st].ranges[j][2] < a.states[st].ranges[i][1]

\* The arguments of Automaton::execute: the strings of at most AutoLen
\* characters over a and b.
Words == UNION {[1..k -> {ChA, ChB}] : k \in 0..AutoLen}

AutoFrame == <<dfa, MinVars, prog, input, rphase, rpos, state, s_off, init_pos, ret, result,
               tried, ParVars, BuildVars, SearchVars>>

\* auto.determinize()
AutoDeterminize ==
    /\ pc = "auto"
    /\ auto' = Determinize(auto)
    /\ auto_in' = auto
    /\ pc' = "determinized"
    /\ UNCHANGED <<apartition, adistinguishers, word, accepted, AutoFrame>>

\* auto.reversed(), and the reversal of the result
AutoReverse ==
    /\ pc \in {"auto", "reversed"}
    /\ auto' = AutomatonReversed(auto)
    /\ auto_in' = IF pc = "auto" THEN auto ELSE auto_in
    /\ pc' = IF pc = "auto" THEN "reversed" ELSE "reversed2"
    /\ UNCHANGED <<apartition, adistinguishers, word, accepted, AutoFrame>>

\* auto.execute(w)
AutoExecute ==
    /\ pc \in {"auto", "determinized", "minimized"}
    /\ IsDeterministic(auto)
    /\ \E w \in Words :
          /\ word' = w
          /\ accepted' = Execute(auto, w)
    /\ pc' = CASE pc = "auto" -> "auto_executed"
               [] pc = "determinized" -> "determinized_executed"
               [] pc = "minimized" -> "minimized_executed"
    /\ UNCHANGED <<auto, auto_in, apartition, adistinguishers, AutoFrame>>

\* Automaton::minimize up to its worklist loop.
AutoMinimizeBegin ==
    /\ pc \in {"auto", "determinized"}
    /\ IsDeterministic(auto)
    /\ auto_in' = auto
    /\ apartition' = {AcceptingStates(auto)}
                      \cup (IF NonAcceptingStates(auto) # {}
                            THEN {NonAcceptingStates(auto)} ELSE {})
    /\ adistinguishers' = {AcceptingStates(auto)}
    /\ pc' = "aminimize"
    /\ UNCHANGED <<auto, word, accepted, AutoFrame>>

\* One iteration of `while distinguishers.len() > 0` of Automaton::minimize.
AutoMinimizePop ==
    /\ pc = "aminimize"
    /\ \E dist \in adistinguishers :
          LET reversed == AutomatonReversed(auto_in)
              trans == Concat([st \in 1..Len(auto_in.states) |->
                                  IF st \in dist THEN reversed.states[st].ranges ELSE <<>>])
              r == AutoSplitBySets(CollectTransitions(trans), apartition,
                                   adistinguishers \ {dist})
          IN  /\ apartition' = r.partition
              /\ adistinguishers' = r.distinguishers
    /\ UNCHANGED <<auto, auto_in, pc, word, accepted, AutoFrame>>

\* Automaton::minimize after its worklist loop: part.iter().next().unwrap()
\* panics on an empty class.
AutoMinimizeEnd ==
    /\ pc = "aminimize"
    /\ adistinguishers = {}
    /\ \E order \in Orders(apartition) :
          IF \E k \in DOMAIN order : order[k] = {}
          THEN /\ pc' = "apanic"
               /\ auto' = auto
          ELSE /\ pc' = "minimized"
               /\ auto' = AutoReindexed(auto_in, order)
    /\ UNCHANGED <<auto_in, apartition, adistinguishers, word, accepted, AutoFrame>>

NfaStates == 2

\* The Automaton built with State::new and add_transition / add_eps: state q
\* has a transition on a to ta[q], on b to tb[q] and on the range [a, b] to
\* tab[q] (0 for none), pushed in this order; with dup the first transition of
\* state 1 is pushed once more.  eps = 1 adds an eps-transition from state 1
\* to state 2, eps = 2 one from state 2 to state 1 as well.
AutoOf(n, ta, tb, tab, acc, ini, eps, dup) ==
    LET base(q) == (IF ta[q] = 0 THEN <<>> ELSE <<<<ChA, ChA, ta[q]>>>>)
                   \o (IF tb[q] = 0 THEN <<>> ELSE <<<<ChB, ChB, tb[q]>>>>)
                   \o (IF tab[q] = 0 THEN <<>> ELSE <<<<ChA, ChB, tab[q]>>>>)
    IN  [states |-> [q \in 1..n |->
                        [ranges |-> IF dup /\ q = 1 /\ base(q) # <<>>
                                    THEN Append(base(q), base(q)[1]) ELSE base(q),
                         eps |-> IF eps >= 1 /\ q = 1 /\ n >= 2 THEN <<2>>
                                 ELSE IF eps >= 2 /\ q = 2 THEN <<1>> ELSE <<>>,
                         accepting |-> q \in acc]],
         initial |-> ini]

\* auto is one of the automata of n states, n in ns, with at most maxTrans
\* transitions (those on [a, b] from state 1 only, and only when wide = 1), at
\* most one accepting state, and the initial state 1 or 2.
AutoIn(ns, wide, epss, dups, maxTrans) ==
    \E n \in ns :
        \E ta \in [1..n -> 0..n], tb \in [1..n -> 0..n], w \in 0..(n * wide) :
            /\ Cardinality({q \in 1..n : ta[q] # 0}) + Cardinality({q \in 1..n : tb[q] # 0})
                  + (IF w # 0 THEN 1 ELSE 0) <= maxTrans
            /\ \E acc \in {{}} \cup {{q} : q \in 1..n}, ini \in 1..(IF n >= 2 THEN 2 ELSE 1),
                    eps \in epss, dup \in dups :
                  auto = AutoOf(n, ta, tb, [q \in 1..n |-> IF q = 1 THEN w ELSE 0],
                                acc, ini, eps, dup)

\* The automata of automaton.rs: the non-deterministic ones of at most
\* NfaStates states, and the deterministic ones of AutoStates states.
InitAuto ==
    /\ \/ AutoIn(1..NfaStates, 1, 0..2, BOOLEAN, AutoTrans)
       \/ AutoIn({AutoStates}, 0, {0}, {FALSE}, AutoTrans)
    /\ auto_in = AutomatonNew
    /\ apartition = {}
    /\ adistinguishers = {}
    /\ word = <<>>
    /\ accepted = FALSE
    /\ dfa = DfaNew
    /\ EngineLocals
    /\ pc = "auto"
    /\ ParIdle
    /\ BuildIdle
    /\ SearchIdle

NextAuto ==
    \/ AutoDeterminize
    \/ AutoReverse
    \/ AutoExecute
    \/ AutoMinimizeBegin
    \/ AutoMinimizePop
    \/ AutoMinimizeEnd

SpecAuto == InitAuto /\ [][NextAuto]_vars

(***************************************************************************)
(* Dfa::from_regex_bounded: the Nfa of the regex is determinized within a  *)
(* budget of max_states states and the Dfa is minimized.  The Nfa has      *)
(* range transitions, eps-transitions and an Accept per state; its entry   *)
(* is state 1, the seed of init_at_start and init_otherwise.               *)
(***************************************************************************)
BuildStates == 3

BuildTrans == 3

BuildBudget == 3

\* The join of the Accept values in S: the union of at_char, the OR of at_eoi.
AcceptJoin(S) ==
    LET pairs == UNION {Range(a.at_char) : a \in S}
        los   == SortedSeq({p[1] : p \in pairs})
        hi(lo) == CHOOSE h \in {p[2] : p \in {r \in pairs : r[1] = lo}} :
                      \A p \in {r \in pairs : r[1] = lo} : p[2] <= h
    IN  [at_eoi |-> \E a \in S : a.at_eoi,
         at_char |-> NormalizeSet([i \in DOMAIN los |-> <<los[i], hi(los[i])>>])]

\* The subset construction of the Nfa n: one Dfa state per reachable subset,
\* its transitions the atoms of the members' ranges, its Accept their join.
NfaDeterminize(n) ==
    LET start_state == EpsClosure(n, Singleton(1))
        d == DeterminizeLoop(n, [states |-> <<StateNew(Accepting(n, start_state))>>,
                                 state_map |-> <<start_state>>,
                                 active_states |-> <<start_state>>])
    IN  [states |-> [k \in DOMAIN d.states |->
                        [transitions |-> Normalize(d.states[k].ranges),
                         accept |-> AcceptJoin({n.states[q].accept : q \in d.state_map[k]})]],
         init_at_start |-> 1, init_after_char |-> <<>>, init_otherwise |-> 1]

BuildFrame == <<MinVars, prog, input, rphase, rpos, state, s_off, init_pos, ret, result,
                tried, ParVars, AutoVars, SearchVars>>

\* nfa.determinize(max_states) with the bug of refusing a Dfa of exactly
\* max_states states.
NfaDeterminizeBoundedOffByOne ==
    /\ pc = "nfa"
    /\ IF NumStates(NfaDeterminize(nfa)) >= max_states
       THEN /\ err' = "TooBig"
            /\ pc' = "toobig"
            /\ dfa' = dfa
       ELSE /\ err' = err
            /\ pc' = "dfa"
            /\ dfa' = NfaDeterminize(nfa)
    /\ UNCHANGED <<nfa, max_states, BuildFrame>>

\* try!(nfa.determinize(max_states)): TooBig when the Dfa has more than
\* max_states states, the Dfa otherwise.
NfaDeterminizeBounded ==
    /\ pc = "nfa"
    /\ IF NumStates(NfaDeterminize(nfa)) > max_states
       THEN /\ err' = "TooBig"
            /\ pc' = "toobig"
            /\ dfa' = dfa
       ELSE /\ err' = err
            /\ pc' = "dfa"
            /\ dfa' = NfaDeterminize(nfa)
    /\ UNCHANGED <<nfa, max_states, BuildFrame>>

\* The Nfa of n states: the transitions of AutoOf, and the Accept ac[q] at q.
NfaOf(n, ta, tb, tab, ac, eps) ==
    LET a == AutoOf(n, ta, tb, tab, {}, 1, eps, FALSE)
    IN  [states |-> [q \in 1..n |->
                        [ranges |-> a.states[q].ranges,
                         eps |-> a.states[q].eps,
                         accepting |-> ~IsNever(ac[q]),
                         accept |-> ac[q]]]]

\* nfa is one of the Nfas of n states, n in ns, with at most maxTrans
\* transitions and at most one state that accepts.
NfaIn(ns, maxTrans) ==
    \E n \in ns :
        \E ta \in [1..n -> 0..n], tb \in [1..n -> 0..n], w \in 0..n, eps \in 0..2 :
            /\ Cardinality({q \in 1..n : ta[q] # 0}) + Cardinality({q \in 1..n : tb[q] # 0})
                  + (IF w # 0 THEN 1 ELSE 0) <= maxTrans
            /\ \E ac \in AcceptChoices(n, 1) :
                  nfa = NfaOf(n, ta, tb, [q \in 1..n |-> IF q = 1 THEN w ELSE 0], ac, eps)

\* Dfa::from_regex_bounded(re, max_states) after Nfa::from_regex and
\* remove_predicates.
InitBuild ==
    /\ NfaIn(1..BuildStates, BuildTrans)
    /\ max_states \in 1..BuildBudget
    /\ err = ""
    /\ dfa = DfaNew
    /\ EngineLocals
    /\ pc = "nfa"
    /\ ParIdle
    /\ AutoIdle
    /\ SearchIdle

NextBuild ==
    \/ NfaDeterminizeBounded
    \/ MinimizeBegin
    \/ MinimizePop
    \/ MinimizeEnd

SpecBuild == InitBuild /\ [][NextBuild]_vars

(***************************************************************************)
(* searcher.rs: iterators over (start, resume, state) triples.  `it` holds *)
(* the fields of the iterator, `items` what next() has returned so far.    *)
(* A panic (slice out of range or off a boundary, char_at off a boundary)  *)
(* ends the iteration in "iter_panic", None in "iter_done".                *)
(***************************************************************************)
SearchLen == 5

SearchState == 5

NoPos == 0 - 1

\* str::is_char_boundary, which decides whether s[p..] panics.
IsCharBoundary(s, p) ==
    \/ p = 0
    \/ p = Len(s)
    \/ p < Len(s) /\ ~(128 <= s[p + 1] /\ s[p + 1] < 192)

\* str::char_at(p) panics: p is past the end or on a continuation byte.
CharAtPanics(s, p) == p >= Len(s) \/ (128 <= s[p + 1] /\ s[p + 1] < 192)

\* s[p..].find(needle): the offset of the first occurrence, relative to p.
Find(s, p, needle) ==
    LET hits == {i \in 0..(Len(s) - p) : StartsWith(s, p + i, needle)}
    IN  IF hits = {} THEN NoPos ELSE Min(hits)

\* s.as_bytes()[p..].iter().position(|c| set.contains_byte(*c)), and memchr
\* for a set of one byte: the offset of the first such byte, relative to p.
Position(s, p, set) ==
    LET hits == {i \in 0..(Len(s) - p - 1) : ContainsByte(set, s[p + i + 1])}
    IN  IF hits = {} THEN NoPos ELSE Min(hits)

\* The fields of an iterator after new().
IterNew(kind, s, needle, byte, chars, st) ==
    [kind |-> kind, input |-> s, needle |-> needle, byte |-> byte, chars |-> chars,
     pos |-> 0, state |-> st]

SearchFrame == <<dfa, MinVars, prog, input, rphase, rpos, state, s_off, init_pos, ret, result,
                 tried, ParVars, AutoVars, BuildVars>>

\* ByteIter::new
ByteIterNew ==
    /\ pc = "iter_new"
    /\ it.kind = "ByteIter"
    /\ pc' = IF it.byte >= 128 THEN "iter_panic" ELSE "iter"
    /\ UNCHANGED <<it, items, SearchFrame>>

\* ByteIter::next with the bug of yielding the offsets relative to the slice
\* that was searched.
ByteIterNextRelative ==
    /\ pc = "iter"
    /\ it.kind = "ByteIter"
    /\ LET pos == Position(it.input, it.pos, [set |-> {it.byte}, contains_non_ascii |-> FALSE])
       IN  IF pos = NoPos
           THEN /\ pc' = "iter_done"
                /\ UNCHANGED <<it, items>>
           ELSE /\ it' = [it EXCEPT !.pos = @ + pos + 1]
                /\ items' = Append(items, <<pos, pos + 1, it.state>>)
                /\ pc' = pc
    /\ UNCHANGED SearchFrame

\* ByteIter::next
ByteIterNext ==
    /\ pc = "iter"
    /\ it.kind = "ByteIter"
    /\ LET pos == Position(it.input, it.pos, [set |-> {it.byte}, contains_non_ascii |-> FALSE])
       IN  IF pos = NoPos
           THEN /\ pc' = "iter_done"
                /\ UNCHANGED <<it, items>>
           ELSE /\ it' = [it EXCEPT !.pos = @ + pos + 1]
                /\ items' = Append(items, <<it'.pos - 1, it'.pos, it.state>>)
                /\ pc' = pc
    /\ UNCHANGED SearchFrame

\* StrIter::next
StrIterNext ==
    /\ pc = "iter"
    /\ it.kind = "StrIter"
    /\ IF it.pos > Len(it.input) \/ ~IsCharBoundary(it.input, it.pos)
       THEN /\ pc' = "iter_panic"
            /\ UNCHANGED <<it, items>>
       ELSE LET pos == Find(it.input, it.pos, it.needle)
            IN  IF pos = NoPos
                THEN /\ pc' = "iter_done"
                     /\ UNCHANGED <<it, items>>
                ELSE IF CharAtPanics(it.input, pos)
                THEN /\ it' = [it EXCEPT !.pos = @ + pos]
                     /\ pc' = "iter_panic"
                     /\ items' = items
                ELSE /\ it' = [it EXCEPT !.pos = @ + pos + LenUtf8(CharAt(it.input, pos))]
                     /\ items' = Append(items, <<it.pos + pos,
                                                 it.pos + pos + Len(it.needle), it.state>>)
                     /\ pc' = pc
    /\ UNCHANGED SearchFrame

\* LoopIter::next
LoopIterNext ==
    /\ pc = "iter"
    /\ it.kind = "LoopIter"
    /\ IF it.pos > Len(it.input)
       THEN /\ pc' = "iter_panic"
            /\ UNCHANGED <<it, items>>
       ELSE LET pos == Position(it.input, it.pos, it.chars)
            IN  IF pos = NoPos
                THEN /\ pc' = "iter_done"
                     /\ UNCHANGED <<it, items>>
                ELSE IF CharAtPanics(it.input, pos)
                THEN /\ pc' = "iter_panic"
                     /\ UNCHANGED <<it, items>>
                ELSE /\ it' = [it EXCEPT !.pos = @ + pos + LenUtf8(CharAt(it.input, pos))]
                     /\ items' = Append(items, <<it.pos, it.pos + pos, it.state>>)
                     /\ pc' = pc
    /\ UNCHANGED SearchFrame

\* AsciiSetIter::next with the bug of yielding the position after the match
\* as the second position, as ByteIter does.
AsciiSetIterNextAfter ==
    /\ pc = "iter"
    /\ it.kind = "AsciiSetIter"
    /\ LET pos == Position(it.input, it.pos, it.chars)
       IN  IF pos = NoPos
           THEN /\ pc' = "iter_done"
                /\ UNCHANGED <<it, items>>
           ELSE /\ it' = [it EXCEPT !.pos = @ + pos + 1]
                /\ items' = Append(items, <<it'.pos - 1, it'.pos, it.state>>)
                /\ pc' = pc
    /\ UNCHANGED SearchFrame

\* AsciiSetIter::next
AsciiSetIterNext ==
    /\ pc = "iter"
    /\ it.kind = "AsciiSetIter"
    /\ LET pos == Position(it.input, it.pos, it.chars)
       IN  IF pos = NoPos
           THEN /\ pc' = "iter_done"
                /\ UNCHANGED <<it, items>>
           ELSE /\ it' = [it EXCEPT !.pos = @ + pos + 1]
                /\ items' = Append(items, <<it'.pos - 1, it'.pos - 1, it.state>>)
                /\ pc' = pc
    /\ UNCHANGED SearchFrame

\* The inputs of the iterators: the strings of at most SearchLen characters
\* over a, b and the two-byte character.
SearchInputs ==
    {Concat([i \in DOMAIN w |-> EncodeUtf8(w[i])]) :
        w \in UNION {[1..k -> InputChars] : k \in 0..SearchLen}}

\* The needles of StrIter: "a", "aa", "ab" and the two-byte character.
SearchNeedles == {<<ChA>>, <<ChA, ChA>>, <<ChA, ChB>>, EncodeUtf8(ChH)}

\* An iterator of each kind after new(); ByteIter::new is still to run, with
\* an ASCII byte or the first byte of the two-byte character.
InitSearch ==
    /\ \E s \in SearchInputs :
          \/ /\ \E b \in {ChA, ChB, EncodeUtf8(ChH)[1]} :
                    it = IterNew("ByteIter", s, <<>>, b, NoSet, SearchState)
             /\ pc = "iter_new"
          \/ /\ \E needle \in SearchNeedles :
                    it = IterNew("StrIter", s, needle, 0, NoSet, SearchState)
             /\ pc = "iter"
          \/ /\ \E set \in {{}, {ChB}}, non_ascii \in BOOLEAN :
                    /\ set # {} \/ non_ascii
                    /\ it = IterNew("LoopIter", s, <<>>, 0,
                                    [set |-> set, contains_non_ascii |-> non_ascii],
                                    SearchState)
             /\ pc = "iter"
          \/ /\ \E set \in {{ChA}, {ChA, ChB}} :
                    it = IterNew("AsciiSetIter", s, <<>>, 0,
                                 [set |-> set, contains_non_ascii |-> FALSE], SearchState)
             /\ pc = "iter"
    /\ items = <<>>
    /\ dfa = DfaNew
    /\ EngineLocals
    /\ ParIdle
    /\ AutoIdle
    /\ BuildIdle

NextSearch ==
    \/ ByteIterNew
    \/ ByteIterNext
    \/ StrIterNext
    \/ LoopIterNext
    \/ AsciiSetIterNext

SpecSearch == InitSearch /\ [][NextSearch]_vars

(***************************************************************************)
(* Reference semantics used by the properties.                             *)
(***************************************************************************)
\* The character boundaries of s from offset p on, end of input included.
RECURSIVE BoundariesFrom(_, _)
BoundariesFrom(s, p) ==
    IF p >= Len(s) THEN {Len(s)} ELSE {p} \cup BoundariesFrom(s, p + LeadLen(s[p + 1]))

Boundaries(s) == BoundariesFrom(s, 0)

\* The start (state or instruction) that an initial triple gives at boundary p:
\* init_at_start at offset 0, after a character c the entry of init_after_char
\* that holds c, and init_otherwise when there is none.
StartAt(triple, s, p) ==
    IF p = 0 THEN triple.init_at_start
    ELSE LET c == CharBefore(s, p)
         IN  IF \E i \in DOMAIN triple.init_after_char :
                    triple.init_after_char[i][1] <= c /\ c <= triple.init_after_char[i][2]
             THEN CharMapGet(triple.init_after_char, c)
             ELSE triple.init_otherwise

\* The Dfa run state by state from state q at offset p: the offsets at which
\* the state entered accepts (its Accept holds of the next character, or of the
\* end of the input).
RECURSIVE DfaAcceptOffsets(_, _, _, _)
DfaAcceptOffsets(d, q, s, p) ==
    LET c == CharAt(s, p)
        here == IF Accepts(d.states[q].accept, c) THEN {p} ELSE {}
        t == IF c = NoChar THEN None ELSE CharMapGet(d.states[q].transitions, c)
    IN  IF t = None THEN here ELSE here \cup DfaAcceptOffsets(d, t, s, p + LenUtf8(c))

\* The first offset at which the Dfa accepts, relative to p.
DfaShortestFrom(d, q, s, p) ==
    IF q = None \/ DfaAcceptOffsets(d, q, s, p) = {} THEN NoneEnd
    ELSE SomeEnd(Min(DfaAcceptOffsets(d, q, s, p)) - p)

\* The instruction stream followed from instruction st at offset off, not
\* stopping at an Acc: the offsets at which an Acc on the way fires.
RECURSIVE ProgAcceptOffsets(_, _, _, _)
ProgAcceptOffsets(insts, s, off, st) ==
    IF st \notin DOMAIN insts THEN {}
    ELSE LET i == insts[st]
             c == CharAt(s, off)
         IN  CASE i.op = "Reject" -> {}
               [] i.op = "Acc" ->
                    (IF (c = NoChar /\ i.acc.at_eoi)
                        \/ (c # NoChar /\ CharSetContains(i.acc.at_char, c))
                     THEN {off} ELSE {})
                    \cup ProgAcceptOffsets(insts, s, off, st + 1)
               [] i.op = "Char" ->
                    IF c # NoChar /\ CharSetContains(i.cs, c)
                    THEN ProgAcceptOffsets(insts, s, off + LenUtf8(c), st + 1) ELSE {}
               [] i.op = "Literal" ->
                    IF StartsWith(s, off, i.lit)
                    THEN ProgAcceptOffsets(insts, s, off + Len(i.lit), st + 1) ELSE {}
               [] i.op = "Branch" ->
                    IF c # NoChar /\ CharMapGet(i.cm, c) # None
                    THEN ProgAcceptOffsets(insts, s, off + LenUtf8(c), CharMapGet(i.cm, c))
                    ELSE {}
               [] i.op = "LoopWhile" ->
                    LET rest == {q \in off..(Len(s) - 1) : ~ContainsByte(i.set, s[q + 1])}
                    IN  IF rest # {} THEN ProgAcceptOffsets(insts, s, Min(rest), st + 1)
                        ELSE {}

\* The start positions a Program has a start instruction for, and those of
\* them at which it has a match.
ProgStarts(p, s) == {b \in Boundaries(s) : StartAt(p, s, b) # None}

ProgMatchStarts(p, s) ==
    {b \in ProgStarts(p, s) : ProgAcceptOffsets(p.insts, s, b, StartAt(p, s, b)) # {}}

(***************************************************************************)
(* C1.  Chain fusion preserves the language: every run of the interpreter  *)
(* on to_program(D) returns what D returns when it is run state by state   *)
(* from the start state of the same position.                              *)
(***************************************************************************)
C1_FusionPreservesLanguage ==
    pc = "ret" =>
        ret = DfaShortestFrom(dfa, StartAt(dfa, input, init_pos), input, init_pos)

(***************************************************************************)
(* C2.  shortest_match returns the first shortest match: the smallest      *)
(* start at which the Program has a match, with the smallest end of a      *)
(* match from there; None only when no start has a match.                  *)
(***************************************************************************)
C2_FirstShortestMatch ==
    pc = "done" =>
        LET found == ProgMatchStarts(prog, input)
        IN  IF found = {} THEN result = NoneSpan
            ELSE LET start == Min(found)
                 IN  result = SomeSpan(start,
                         Min(ProgAcceptOffsets(prog.insts, input, start,
                                               StartAt(prog, input, start))))

\* A match was found at a start after the first character although an earlier
\* start was tried, and an Acc that did not fire was passed on the way.
C2_Witness ==
    /\ pc = "done"
    /\ result.some
    /\ result.start > 0
    /\ result.end > result.start
    /\ Len(tried) >= 2

(***************************************************************************)
(* C3.  The slow runner tries the start positions in increasing order, each*)
(* from the start instruction of its position (init_at_start at 0, else    *)
(* init_after_char of the previous character, else init_otherwise), skips  *)
(* the positions that have none, and returns the first success.            *)
(***************************************************************************)
ExpectedTries(p, s) ==
    LET starts == SortedSeq(ProgStarts(p, s))
    IN  [i \in DOMAIN starts |-> <<starts[i], StartAt(p, s, starts[i])>>]

C3_SlowRunnerStartByPosition ==
    pc \in {"interp", "ret", "done"} =>
        LET e == ExpectedTries(prog, input)
            Fails(i) == ProgAcceptOffsets(prog.insts, input, tried[i][1], tried[i][2]) = {}
        IN  /\ Len(tried) <= Len(e)
            /\ \A i \in DOMAIN tried : tried[i] = e[i]
            /\ \A i \in 1..(Len(tried) - 1) : Fails(i)
            /\ pc = "done" =>
                  IF result.some
                  THEN /\ tried # <<>>
                       /\ result.start = tried[Len(tried)][1]
                       /\ ~Fails(Len(tried))
                  ELSE /\ tried = e
                       /\ \A i \in DOMAIN tried : Fails(i)

\* The runner went on after a failure at offset 0, skipped a position that has
\* no start state, and took the next start from init_after_char.
C3_Witness ==
    /\ pc = "done"
    /\ prog.init_after_char # <<>>
    /\ prog.init_otherwise = None
    /\ Len(tried) >= 2
    /\ tried[1][1] = 0
    /\ Len(tried) < Cardinality(Boundaries(input))
    /\ result.some

(***************************************************************************)
(* C4.  An Acc(a) instruction returns the current offset exactly when the  *)
(* next character is in a.at_char, or a.at_eoi holds at the end of the     *)
(* input; the character is not consumed; otherwise the next instruction is *)
(* executed at the same offset.                                            *)
(***************************************************************************)
C4_AccSemantics ==
    [][(pc = "interp" /\ state \in DOMAIN prog.insts /\ prog.insts[state].op = "Acc") =>
        LET a == prog.insts[state].acc
            fires == IF s_off < Len(input)
                     THEN \E i \in DOMAIN a.at_char :
                             /\ a.at_char[i][1] <= CharAt(input, s_off)
                             /\ CharAt(input, s_off) <= a.at_char[i][2]
                     ELSE a.at_eoi
        IN  IF fires
            THEN pc' = "ret" /\ ret' = SomeEnd(s_off - init_pos) /\ s_off' = s_off
            ELSE pc' = "interp" /\ state' = state + 1 /\ s_off' = s_off /\ ret' = ret]_vars

\* An Acc fired on a lookahead character it did not consume (a zero-width
\* match before b), and an Acc that did not fire was passed.
C4_Witness ==
    /\ pc = "ret"
    /\ ret = SomeEnd(0)
    /\ prog.insts[state].op = "Acc"
    /\ s_off < Len(input)
    /\ prog.insts[state].acc # AcceptAlways

(***************************************************************************)
(* Reference notions for Dfa::minimize.                                    *)
(***************************************************************************)
\* Dfa::minimize has returned: dfa is the result for dfa_in, and partition the
\* partition it was built from.
Minimized == pc = "dfa" /\ round >= 1

\* The strings on which two Dfas, or two states, are compared.
Continuations ==
    {Concat([i \in DOMAIN w |-> EncodeUtf8(w[i])]) :
        w \in UNION {[1..k -> InputChars] : k \in 0..(MaxLen + 1)}}

\* States p of d and q of e accept at the same offsets on every continuation.
SameOffsets(d, p, e, q) ==
    \A s \in Continuations : DfaAcceptOffsets(d, p, s, 0) = DfaAcceptOffsets(e, q, s, 0)

\* Start states p of d and q of e (None for no start state) are equivalent.
SameStart(d, p, e, q) ==
    IF p = None \/ q = None THEN p = q ELSE SameOffsets(d, p, e, q)

\* The states of d reachable from its initial states.
RECURSIVE ReachableFrom(_, _)
ReachableFrom(d, S) ==
    LET next == S \cup UNION {{d.states[q].transitions[i][3] :
                                  i \in DOMAIN d.states[q].transitions} : q \in S}
    IN  IF next = S THEN S ELSE ReachableFrom(d, next)

InitialStates(d) ==
    ({d.init_at_start, d.init_otherwise} \ {None})
    \cup {d.init_after_char[i][3] : i \in DOMAIN d.init_after_char}

Reachable(d) == ReachableFrom(d, InitialStates(d))

\* The characters that tell the transitions of d apart: the ends of its ranges.
Probes(d) ==
    UNION {UNION {{d.states[q].transitions[i][1], d.states[q].transitions[i][2]} :
                     i \in DOMAIN d.states[q].transitions} : q \in 1..NumStates(d)}

\* The coarsest partition of the states of d in which the states of a class
\* have one Accept value and, on every character, either all have no
\* transition or all lead into one class: the limit of refining P.
RECURSIVE Coarsest(_, _)
Coarsest(d, P) ==
    LET ClassOf(q) == CHOOSE c \in P : q \in c
        Target(q, ch) == LET t == CharMapGet(d.states[q].transitions, ch)
                         IN  IF t = None THEN {} ELSE ClassOf(t)
        Alike(p, q) == /\ ClassOf(p) = ClassOf(q)
                       /\ \A ch \in Probes(d) : Target(p, ch) = Target(q, ch)
        next == {{q \in 1..NumStates(d) : Alike(p, q)} : p \in 1..NumStates(d)}
    IN  IF next = P THEN P ELSE Coarsest(d, next)

ByAccept(d) ==
    {{q \in 1..NumStates(d) : d.states[q].accept = d.states[p].accept} :
        p \in 1..NumStates(d)}

CoarsestPartition(d) == Coarsest(d, ByAccept(d))

(***************************************************************************)
(* Reference notions for automaton.rs.                                     *)
(***************************************************************************)
\* The states reachable from S by eps-transitions alone.
RECURSIVE EpsReach(_, _)
EpsReach(a, S) ==
    LET next == S \cup UNION {Range(a.states[q].eps) : q \in S}
    IN  IF next = S THEN S ELSE EpsReach(a, next)

\* The run of the non-deterministic automaton a on w from the set S of states,
\* eps-transitions followed: whether it ends in a set with an accepting state.
RECURSIVE NfaRun(_, _, _)
NfaRun(a, S, w) ==
    IF w = <<>> THEN \E q \in S : a.states[q].accepting
    ELSE NfaRun(a,
                EpsReach(a, {t \in 1..Len(a.states) :
                                \E q \in S : \E i \in DOMAIN a.states[q].ranges :
                                    /\ a.states[q].ranges[i][1] <= Head(w)
                                    /\ Head(w) <= a.states[q].ranges[i][2]
                                    /\ a.states[q].ranges[i][3] = t}),
                Tail(w))

\* What a answers on w from its initial state.
NfaAccepts(a, w) == NfaRun(a, EpsReach(a, {a.initial}), w)

\* The sequences s and t hold the same elements the same number of times.
SameBag(s, t) ==
    /\ Len(s) = Len(t)
    /\ \A x \in Range(s) \cup Range(t) :
          Cardinality({i \in DOMAIN s : s[i] = x}) = Cardinality({i \in DOMAIN t : t[i] = x})

(***************************************************************************)
(* C5.  Dfa::minimize returns an equivalent Dfa: from init_at_start, from  *)
(* every entry of init_after_char and from init_otherwise the result       *)
(* accepts at the same offsets as the original, on every string.           *)
(***************************************************************************)
C5_MinimizeEquivalent ==
    Minimized =>
        /\ SameStart(dfa, dfa.init_at_start, dfa_in, dfa_in.init_at_start)
        /\ SameStart(dfa, dfa.init_otherwise, dfa_in, dfa_in.init_otherwise)
        /\ Len(dfa.init_after_char) = Len(dfa_in.init_after_char)
        /\ \A i \in DOMAIN dfa_in.init_after_char :
              /\ dfa.init_after_char[i][1] = dfa_in.init_after_char[i][1]
              /\ dfa.init_after_char[i][2] = dfa_in.init_after_char[i][2]
              /\ SameOffsets(dfa, dfa.init_after_char[i][3],
                             dfa_in, dfa_in.init_after_char[i][3])

\* States were merged and the classes renumbered, and the original accepts
\* some string only after two characters.
C5_Witness ==
    /\ Minimized
    /\ NumStates(dfa) < NumStates(dfa_in)
    /\ NumStates(dfa) >= 2
    /\ dfa.init_at_start # dfa_in.init_at_start
    /\ \E s \in Continuations :
          /\ DfaAcceptOffsets(dfa_in, dfa_in.init_at_start, s, 0) # {}
          /\ Min(DfaAcceptOffsets(dfa_in, dfa_in.init_at_start, s, 0)) >= 2

(***************************************************************************)
(* C6.  The result of Dfa::minimize is minimal: no two distinct states of  *)
(* it behave identically, that is, have the same accept outcome on every   *)
(* input continuation.                                                     *)
(***************************************************************************)
C6_MinimizeMinimal ==
    Minimized =>
        \A p, q \in 1..NumStates(dfa) : p # q => ~SameOffsets(dfa, p, dfa, q)

(***************************************************************************)
(* C7.  Dfa::minimize never merges states of different Accept values:      *)
(* every class of the partition holds states of one Accept value, and the  *)
(* state built for the class carries it.                                   *)
(***************************************************************************)
C7_OneAcceptPerClass ==
    /\ pc = "minimize" =>
          \A k \in DOMAIN partition : \A i, j \in partition[k] :
              dfa_in.states[i].accept = dfa_in.states[j].accept
    /\ Minimized =>
          \A k \in DOMAIN partition : \A i \in partition[k] :
              dfa.states[k].accept = dfa_in.states[i].accept

\* Two accepting states with the same transitions and different Accept values
\* were kept apart, in a run that merged two other states.
C7_Witness ==
    /\ Minimized
    /\ \E k \in DOMAIN partition : Cardinality(partition[k]) >= 2
    /\ \E i, j \in 1..NumStates(dfa_in) :
          /\ ~IsNever(dfa_in.states[i].accept)
          /\ ~IsNever(dfa_in.states[j].accept)
          /\ dfa_in.states[i].accept # dfa_in.states[j].accept
          /\ dfa_in.states[i].transitions = dfa_in.states[j].transitions
          /\ \A k \in DOMAIN partition : ~({i, j} \subseteq partition[k])

(***************************************************************************)
(* C8.  After Dfa::minimize no state of the result is unreachable from the *)
(* initial states, for every input Dfa.                                    *)
(***************************************************************************)
C8_NoUnreachableState ==
    Minimized => Reachable(dfa) = 1..NumStates(dfa)

(***************************************************************************)
(* C9.  Minimization is idempotent on the state count: minimizing the      *)
(* result of Dfa::minimize again, any number of times, keeps the number of *)
(* states.                                                                 *)
(***************************************************************************)
C9_MinimizeIdempotent ==
    (pc = "dfa" /\ round >= 2) => NumStates(dfa) = NumStates(dfa_in)

\* The second minimization has returned a Dfa of at least two states, which it
\* numbered in another order than the first.
C9_Witness ==
    /\ pc = "dfa"
    /\ round >= 2
    /\ NumStates(dfa) >= 2
    /\ \E k \in DOMAIN partition : partition[k] # {k}

(***************************************************************************)
(* C10.  The result of Dfa::minimize does not depend on the distinguisher  *)
(* pop_arbitrary removes: every order of pops ends with the same final     *)
(* partition, the coarsest one that respects Accept values and             *)
(* transitions, so the result is unique up to the numbering of the states. *)
(***************************************************************************)
C10_PopOrderIndependent ==
    Minimized => Range(partition) = CoarsestPartition(dfa_in)

\* A run that had a choice of distinguishers, split a class in the loop, and
\* still merged two states.
C10_Witness ==
    /\ Minimized
    /\ Cardinality(ByAccept(dfa_in)) >= 2
    /\ Len(partition) > Cardinality(AcceptPartition(dfa_in).others)
                          + Len(RejectPartition(dfa_in, AcceptPartition(dfa_in).nevers))
    /\ \E k \in DOMAIN partition : Cardinality(partition[k]) >= 2

(***************************************************************************)
(* C11.  When init_otherwise is None and init_after_char is empty,         *)
(* shortest_match only tries a match that starts at offset 0: every call   *)
(* of the interpreter is at offset 0 and the result is Some((0, end)) or   *)
(* None.                                                                   *)
(***************************************************************************)
C11_MatchMustStartAtZero ==
    (pc \in {"interp", "ret", "done"} /\ prog.init_otherwise = None
        /\ prog.init_after_char = <<>>) =>
        /\ Len(tried) <= 1
        /\ \A i \in DOMAIN tried : tried[i] = <<0, prog.init_at_start>>
        /\ pc = "done" => (result = NoneSpan \/ (result.some /\ result.start = 0))

\* The attempt at offset 0 failed and None was returned, although the same
\* instructions match at a later character boundary of the input.
C11_Witness ==
    /\ pc = "done"
    /\ prog.init_otherwise = None
    /\ prog.init_after_char = <<>>
    /\ prog.init_at_start # None
    /\ result = NoneSpan
    /\ tried = <<<<0, prog.init_at_start>>>>
    /\ \E b \in Boundaries(input) \ {0} :
          ProgAcceptOffsets(prog.insts, input, b, prog.init_at_start) # {}

(***************************************************************************)
(* C12.  An empty Program (no instructions, from a Dfa with no states)     *)
(* matches nothing: shortest_match returns None on every input, the empty  *)
(* string included, without a call of the interpreter, so the instruction  *)
(* vector is never indexed.                                                *)
(***************************************************************************)
C12_EmptyProgramMatchesNothing ==
    (pc \in {"interp", "ret", "done"} /\ prog.insts = <<>>) =>
        /\ pc = "done"
        /\ result = NoneSpan
        /\ tried = <<>>

\* shortest_match returned on a non-empty input for the Program of the Dfa
\* with no states.
C12_Witness ==
    /\ pc = "done"
    /\ NumStates(dfa) = 0
    /\ prog.insts = <<>>
    /\ prog.init_at_start = None
    /\ input # <<>>
    /\ result = NoneSpan

(***************************************************************************)
(* C14.  A compiled Program is not modified by matching: when several      *)
(* shortest_match calls run on one Program, interleaved in any way over    *)
(* different inputs, the Program stays the one to_program built and each   *)
(* call returns what the same call returns when it runs alone (the first   *)
(* shortest match of the Program on its input).                            *)
(***************************************************************************)
FirstShortest(p, s) ==
    LET found == ProgMatchStarts(p, s)
    IN  IF found = {} THEN NoneSpan
        ELSE SomeSpan(Min(found),
                 Min(ProgAcceptOffsets(p.insts, s, Min(found), StartAt(p, s, Min(found)))))

C14_InterleavingInvisible ==
    pc # "dfa" =>
        /\ prog = ToProgram(dfa)
        /\ pc = "done" => result = FirstShortest(prog, input)
        /\ \A i \in DOMAIN parked :
              parked[i].pc = "done" => parked[i].result = FirstShortest(prog, parked[i].input)

\* A call returned a match found at its second start while the call of
\* another thread, on another input, is in the middle of the interpreter.
C14_Witness ==
    /\ pc = "done"
    /\ result.some
    /\ Len(tried) >= 2
    /\ \E i \in DOMAIN parked :
          /\ parked[i].pc = "interp"
          /\ parked[i].input # input
          /\ parked[i].s_off > parked[i].init_pos

(***************************************************************************)
(* C15.  Reversal is an involution on transitions: the reversal of the     *)
(* reversal of an automaton (no minimization in between) has the states of *)
(* the original and, for every state index, the same multiset of           *)
(* (range, target) transitions.                                            *)
(***************************************************************************)
C15_ReversalInvolution ==
    pc = "reversed2" =>
        /\ Len(auto.states) = Len(auto_in.states)
        /\ \A st \in DOMAIN auto_in.states :
              SameBag(auto.states[st].ranges, auto_in.states[st].ranges)

\* The original has a transition twice in one state, and the double reversal
\* gave some state its transitions back in another order.
C15_Witness ==
    /\ pc = "reversed2"
    /\ \E st \in DOMAIN auto_in.states : \E i, j \in DOMAIN auto_in.states[st].ranges :
          i # j /\ auto_in.states[st].ranges[i] = auto_in.states[st].ranges[j]
    /\ \E st \in DOMAIN auto_in.states :
          auto.states[st].ranges # auto_in.states[st].ranges

(***************************************************************************)
(* C16.  Automaton::determinize returns an automaton without eps-          *)
(* transitions on which execute answers, for every input string, what the  *)
(* source automaton answers from its initial state (the field initial)     *)
(* with eps-transitions followed.                                          *)
(***************************************************************************)
C16_DeterminizeEquivalent ==
    /\ pc \in {"determinized", "determinized_executed"} =>
          \A st \in DOMAIN auto.states : auto.states[st].eps = <<>>
    /\ pc = "determinized_executed" => accepted = NfaAccepts(auto_in, word)

(***************************************************************************)
(* C17.  Automaton::minimize returns an equivalent automaton: for every    *)
(* deterministic input automaton (transitions may be missing for some      *)
(* characters) and every input string, execute on the result answers what  *)
(* execute answers on the input automaton.                                 *)
(***************************************************************************)
C17_AutoMinimizeEquivalent ==
    pc = "minimized_executed" => accepted = Execute(auto_in, word)

(***************************************************************************)
(* C13.  from_regex_bounded(R, k) succeeds iff the subset construction     *)
(* stayed within k states, and then the minimized Dfa has at most k states;*)
(* when the number of Dfa states exceeds max_states it returns the TooBig  *)
(* error, and neither a Dfa nor a Program.                                 *)
(***************************************************************************)
\* The subsets the subset construction of n reaches from those in seen, over
\* the characters a and b (every range of the Nfas here begins and ends there).
RECURSIVE SubsetsFrom(_, _)
SubsetsFrom(n, seen) ==
    LET step(S, ch) == EpsReach(n, {t \in 1..Len(n.states) :
                           \E q \in S : \E i \in DOMAIN n.states[q].ranges :
                               /\ n.states[q].ranges[i][1] <= ch
                               /\ ch <= n.states[q].ranges[i][2]
                               /\ n.states[q].ranges[i][3] = t})
        next == seen \cup ({step(S, ch) : S \in seen, ch \in {ChA, ChB}} \ {{}})
    IN  IF next = seen THEN seen ELSE SubsetsFrom(n, next)

SubsetCount(n) == Cardinality(SubsetsFrom(n, {EpsReach(n, {1})}))

C13_BudgetEnforced ==
    /\ pc = "toobig" =>
          /\ err = "TooBig"
          /\ SubsetCount(nfa) > max_states
          /\ dfa = DfaNew
          /\ prog = ProgramNew
    /\ pc \in {"dfa", "minimize"} =>
          /\ err = ""
          /\ SubsetCount(nfa) <= max_states
    /\ (pc = "dfa" /\ round >= 1) => NumStates(dfa) <= max_states

\* A construction that used the whole budget and succeeded, with a minimized
\* Dfa that is smaller than the budget.
C13_Witness ==
    /\ pc = "dfa"
    /\ round = 1
    /\ SubsetCount(nfa) = max_states
    /\ NumStates(dfa) < max_states

\* A construction that failed although fewer states than max_states tell the
\* subsets of the Nfa apart by Accept value.
C13_WitnessTooBig ==
    /\ pc = "toobig"
    /\ Cardinality({AcceptJoin({nfa.states[q].accept : q \in S}) :
                       S \in SubsetsFrom(nfa, {EpsReach(nfa, {1})})}) < max_states

(***************************************************************************)
(* C18.  Every item yielded by ByteIter, StrIter, LoopIter and             *)
(* AsciiSetIter, on ASCII and multi-byte inputs alike, has its first and   *)
(* its second index on a character boundary of the input and its third     *)
(* component equal to the state given at construction.                     *)
(***************************************************************************)
C18_ItemsOnBoundaries ==
    pc \in {"iter", "iter_done", "iter_panic"} =>
        \A i \in DOMAIN items :
            /\ items[i][1] \in Boundaries(it.input)
            /\ items[i][2] \in Boundaries(it.input)
            /\ items[i][3] = it.state

(***************************************************************************)
(* C19.  StrIter yields (i, i + needle.len(), state) for every byte offset *)
(* i at which the non-empty needle occurs in the haystack, overlapping     *)
(* occurrences included, in increasing order of i, none omitted and none   *)
(* repeated, and then None.                                                *)
(***************************************************************************)
\* The items of StrIter on the haystack s.
StrIterExpected(s, needle, st) ==
    LET occ == SortedSeq({i \in 0..Len(s) : StartsWith(s, i, needle)})
    IN  [k \in DOMAIN occ |-> <<occ[k], occ[k] + Len(needle), st>>]

C19_StrIterAllOccurrences ==
    (pc \in {"iter", "iter_done", "iter_panic"} /\ it.kind = "StrIter") =>
        LET expected == StrIterExpected(it.input, it.needle, it.state)
        IN  /\ pc # "iter_panic"
            /\ Len(items) <= Len(expected)
            /\ items = SubSeq(expected, 1, Len(items))
            /\ pc = "iter_done" => items = expected

(***************************************************************************)
(* C20.  LoopIter yields, for every input string, one item (s, e, state)   *)
(* per occurrence of a character of `chars`, in increasing order: e is the *)
(* offset of that character and s the offset just after the previous one   *)
(* (0 for the first); s = e is allowed, and a trailing run yields nothing. *)
(***************************************************************************)
\* The items of LoopIter on the input s.
LoopIterExpected(s, chars, st) ==
    LET occ == SortedSeq({e \in Boundaries(s) \ {Len(s)} : ContainsByte(chars, s[e + 1])})
    IN  [k \in DOMAIN occ |->
            <<IF k = 1 THEN 0 ELSE occ[k - 1] + LeadLen(s[occ[k - 1] + 1]), occ[k], st>>]

C20_LoopIterItems ==
    (pc \in {"iter", "iter_done", "iter_panic"} /\ it.kind = "LoopIter") =>
        LET expected == LoopIterExpected(it.input, it.chars, it.state)
        IN  /\ pc # "iter_panic"
            /\ Len(items) <= Len(expected)
            /\ items = SubSeq(expected, 1, Len(items))
            /\ pc = "iter_done" => items = expected

(***************************************************************************)
(* C21.  ByteIter yields, in increasing order, exactly one item            *)
(* (i, i + 1, state) for every offset i at which the given ASCII byte      *)
(* occurs in the input, and then None; ByteIter::new with a byte >= 128    *)
(* panics and no iterator comes to be.                                     *)
(***************************************************************************)
C21_ByteIterItems ==
    it.kind = "ByteIter" =>
        LET occ == SortedSeq({i \in 0..(Len(it.input) - 1) : it.input[i + 1] = it.byte})
            expected == [k \in DOMAIN occ |-> <<occ[k], occ[k] + 1, it.state>>]
        IN  IF it.byte >= 128
            THEN pc \in {"iter_new", "iter_panic"} /\ items = <<>>
            ELSE /\ pc # "iter_panic"
                 /\ Len(items) <= Len(expected)
                 /\ items = SubSeq(expected, 1, Len(items))
                 /\ pc = "iter_done" => items = expected

\* A finished ByteIter that found its byte twice, once after a two-byte
\* character.
C21_Witness ==
    /\ it.kind = "ByteIter"
    /\ pc = "iter_done"
    /\ Len(items) >= 2
    /\ \E k \in DOMAIN it.input : it.input[k] >= 128 /\ k < items[Len(items)][1]

\* ByteIter::new refused the first byte of a two-byte character.
C21_WitnessPanic ==
    /\ it.kind = "ByteIter"
    /\ pc = "iter_panic"
    /\ \E k \in DOMAIN it.input : it.input[k] = it.byte

(***************************************************************************)
(* C22.  AsciiSetIter yields, in increasing order, exactly one item        *)
(* (i, i, state) for every offset i whose byte belongs to the ASCII set    *)
(* (the second position is the position of the match), and then None.      *)
(***************************************************************************)
C22_AsciiSetIterItems ==
    it.kind = "AsciiSetIter" =>
        LET occ == SortedSeq({i \in 0..(Len(it.input) - 1) : it.input[i + 1] \in it.chars.set})
            expected == [k \in DOMAIN occ |-> <<occ[k], occ[k], it.state>>]
        IN  /\ pc # "iter_panic"
            /\ Len(items) <= Len(expected)
            /\ items = SubSeq(expected, 1, Len(items))
            /\ pc = "iter_done" => items = expected

\* A finished AsciiSetIter over a set of two characters that found both, one of
\* them after a two-byte character, and skipped a byte outside the set.
C22_Witness ==
    /\ it.kind = "AsciiSetIter"
    /\ pc = "iter_done"
    /\ Cardinality({it.input[items[k][1] + 1] : k \in DOMAIN items}) = 2
    /\ \E k \in DOMAIN it.input : it.input[k] >= 128 /\ k < items[Len(items)][1]

(***************************************************************************)
(* C23.  Within one chain built by build_chain the Acc of a state comes    *)
(* after every instruction that consumes the characters leading to that    *)
(* state and before those that consume the characters leaving it, also     *)
(* when the links before it were buffered into a pending literal: the      *)
(* accept of the k-th state of a chain is tested after exactly k - 1       *)
(* characters of the chain have been consumed.                             *)
(***************************************************************************)
\* The states of the chain that st_idx heads, in the order of its links.
RECURSIVE ChainStates(_, _, _)
ChainStates(d, st_idx, rev) ==
    IF IsChainLink(d, st_idx, rev)
    THEN <<st_idx>> \o ChainStates(d, SingleTarget(d.states[st_idx].transitions), rev)
    ELSE <<st_idx>>

\* The number of characters an instruction of a chain consumes before the
\* next one runs: those of a Literal, one for a Char.
CharsConsumed(inst) ==
    IF inst.op = "Literal" THEN Cardinality({i \in DOMAIN inst.lit : ~(128 <= inst.lit[i] /\ inst.lit[i] < 192)})
    ELSE IF inst.op = "Char" THEN 1 ELSE 0

\* For every Acc of the chain c, in order: the number of characters consumed
\* before it, and its Accept.
AccTests(c) ==
    LET RECURSIVE Before(_)
        Before(i) == IF i <= 1 THEN 0 ELSE Before(i - 1) + CharsConsumed(c[i - 1])
        accs == SelectSeq([i \in DOMAIN c |-> i], LAMBDA i : c[i].op = "Acc")
    IN  [k \in DOMAIN accs |-> <<Before(accs[k]), c[accs[k]].acc>>]

\* For every state of the chain whose accept is not never, in order: the number
\* of states before it, and its Accept.
AccStates(d, states) ==
    LET accs == SelectSeq([k \in DOMAIN states |-> k],
                          LAMBDA k : ~IsNever(d.states[states[k]].accept))
    IN  [j \in DOMAIN accs |-> <<accs[j] - 1, d.states[states[accs[j]]].accept>>]

C23_AccAfterLeadingChars ==
    pc = "ready" =>
        \A head \in {h \in 1..NumStates(dfa) : IsChainHead(dfa, h, Reversed(dfa))} :
            AccTests(BuildChain(dfa, head, Reversed(dfa)))
                = AccStates(dfa, ChainStates(dfa, head, Reversed(dfa)))

(***************************************************************************)
(* C24.  shortest_match_from returns Some(offset) at the first Acc that    *)
(* fires, offset being the number of input bytes consumed since its start, *)
(* and None on Reject, on a Char, Literal or Branch that does not match    *)
(* the next input, and when the input is exhausted without an accept.      *)
(***************************************************************************)
\* The instructions run in order from instruction st at offset off of s, for a
\* call that began at offset from: the offset of the first Acc that fires.
RECURSIVE FirstAcc(_, _, _, _, _)
FirstAcc(insts, s, from, off, st) ==
    LET i == insts[st]
        rest == SubSeq(s, off + 1, Len(s))
        \* the byte length of the first character of rest, 0 at the end of the input
        width == IF rest = <<>> THEN 0 ELSE LeadLen(rest[1])
        ch == CharAt(s, off)
    IN  CASE i.op = "Reject" -> NoneEnd
          [] i.op = "Acc" ->
               IF (IF rest = <<>> THEN i.acc.at_eoi
                   ELSE \E k \in DOMAIN i.acc.at_char :
                           i.acc.at_char[k][1] <= ch /\ ch <= i.acc.at_char[k][2])
               THEN SomeEnd(off - from)
               ELSE FirstAcc(insts, s, from, off, st + 1)
          [] i.op = "Char" ->
               IF rest # <<>> /\ (\E k \in DOMAIN i.cs : i.cs[k][1] <= ch /\ ch <= i.cs[k][2])
               THEN FirstAcc(insts, s, from, off + width, st + 1)
               ELSE NoneEnd
          [] i.op = "Literal" ->
               IF Len(rest) >= Len(i.lit) /\ SubSeq(rest, 1, Len(i.lit)) = i.lit
               THEN FirstAcc(insts, s, from, off + Len(i.lit), st + 1)
               ELSE NoneEnd
          [] i.op = "Branch" ->
               IF rest # <<>> /\ (\E k \in DOMAIN i.cm : i.cm[k][1] <= ch /\ ch <= i.cm[k][2])
               THEN FirstAcc(insts, s, from, off + width,
                             i.cm[CHOOSE k \in DOMAIN i.cm :
                                      i.cm[k][1] <= ch /\ ch <= i.cm[k][2]][3])
               ELSE NoneEnd
          [] i.op = "LoopWhile" ->
               IF \A k \in DOMAIN rest : ContainsByte(i.set, rest[k]) THEN NoneEnd
               ELSE FirstAcc(insts, s, from,
                             off + Min({k \in DOMAIN rest : ~ContainsByte(i.set, rest[k])}) - 1,
                             st + 1)

C24_InterpreterResult ==
    pc = "ret" => ret = FirstAcc(prog.insts, input, rpos, rpos, tried[Len(tried)][2])

\* A call that began after the start of the input returned the number of
\* bytes of a two-byte character, at an Acc that does not always fire.
C24_Witness ==
    /\ pc = "ret"
    /\ rpos > 0
    /\ ret = SomeEnd(2)
    /\ prog.insts[state].op = "Acc"
    /\ prog.insts[state].acc # AcceptAlways

\* A call that returned None at a Literal that did not match the input.
C24_WitnessNone ==
    /\ pc = "ret"
    /\ ret = NoneEnd
    /\ prog.insts[state].op = "Literal"
    /\ s_off < Len(input)

(***************************************************************************)
(* Reference: the end of the longest prefix of s[off..] whose bytes all    *)
(* satisfy an extended ASCII set.                                          *)
(***************************************************************************)
Satisfies(set, b) == b \in set.set \/ (set.contains_non_ascii /\ b >= 128)

RECURSIVE SetPrefixEnd(_, _, _)
SetPrefixEnd(set, s, off) ==
    IF off < Len(s) /\ Satisfies(set, s[off + 1])
    THEN SetPrefixEnd(set, s, off + 1)
    ELSE off

\* C25 (as stated): for every remaining input, also when every remaining byte
\* satisfies the set, LoopWhile(set) advances over the longest prefix of bytes
\* satisfying the set and then falls through to the next instruction.
C25_LoopWhileAlwaysFallsThrough ==
    [][Interpreting("LoopWhile") =>
          /\ pc' = "interp"
          /\ state' = state + 1
          /\ s_off' = SetPrefixEnd(CurInst.set, input, s_off)]_vars

\* C25 (amended): when some remaining byte does not satisfy the set,
\* LoopWhile(set) advances over the longest prefix of bytes satisfying the set
\* and falls through to the next instruction; when every remaining byte
\* satisfies the set (the empty remainder included) the call returns None.
C25_LoopWhileStep ==
    [][Interpreting("LoopWhile") =>
          LET end == SetPrefixEnd(CurInst.set, input, s_off)
          IN  IF end < Len(input)
              THEN /\ pc' = "interp"
                   /\ state' = state + 1
                   /\ s_off' = end
              ELSE /\ pc' = "ret"
                   /\ ret' = NoneEnd]_vars

\* A LoopWhile has advanced over a non-empty prefix and fallen through.
C25_Witness ==
    /\ pc = "interp"
    /\ state - 1 \in DOMAIN prog.insts
    /\ prog.insts[state - 1].op = "LoopWhile"
    /\ s_off > rpos
    /\ s_off < Len(input)

\* A LoopWhile has returned None on a non-empty remainder of the set's bytes.
C25_WitnessExhausted ==
    /\ pc = "ret"
    /\ state \in DOMAIN prog.insts
    /\ prog.insts[state].op = "LoopWhile"
    /\ ret = NoneEnd
    /\ s_off < Len(input)

(***************************************************************************)
(* Reference for the chains of a Dfa: the walk along chain links, cut      *)
(* after a given number of states so that it is defined on cycles too.     *)
(***************************************************************************)
RECURSIVE LinkWalk(_, _, _, _)
LinkWalk(d, st_idx, rev, fuel) ==
    IF fuel = 0 THEN <<>>
    ELSE IF IsChainLink(d, st_idx, rev)
    THEN <<st_idx>> \o LinkWalk(d, SingleTarget(d.states[st_idx].transitions), rev, fuel - 1)
    ELSE <<st_idx>>

ChainHeads(d) == {h \in 1..NumStates(d) : IsChainHead(d, h, Reversed(d))}

\* The states of the chain of the head h.
ChainOf(d, h) == Range(LinkWalk(d, h, Reversed(d), NumStates(d) + 1))

\* The heads whose chain the state s belongs to.
HeadsOf(d, s) == {h \in ChainHeads(d) : s \in ChainOf(d, h)}

\* Following chain links from h never comes back to a state.
NoRevisit(d, h) ==
    LET w == LinkWalk(d, h, Reversed(d), NumStates(d) + 1)
    IN  \A i, j \in DOMAIN w : i # j => w[i] # w[j]

\* Following chain links from s comes back to s.
OnLinkCycle(d, s) ==
    LET w == LinkWalk(d, s, Reversed(d), NumStates(d) + 1)
    IN  \E i \in 2..Len(w) : w[i] = s

\* The chains Dfa::chains returns are those of the heads, in their order.
ChainsAreOfHeads(d) ==
    LET ch == Chains(d)
    IN  /\ DOMAIN ch.map = ChainHeads(d)
        /\ Len(ch.chains) = Cardinality(ChainHeads(d))
        /\ \A h \in ChainHeads(d) : ch.chains[ch.map[h]] = BuildChain(d, h, Reversed(d))

\* C26 (as stated): for every Dfa chain detection is a partition: every state
\* belongs to exactly one chain, each chain is headed by a state for which
\* is_chain_head holds, and following chain links from a head never comes back
\* to a state.
C26_ChainsPartitionAllStates ==
    /\ pc \in {"dfa", "ready"} =>
          /\ \A s \in 1..NumStates(dfa) : Cardinality(HeadsOf(dfa, s)) = 1
          /\ \A h \in ChainHeads(dfa) : NoRevisit(dfa, h)
    /\ pc = "ready" => ChainsAreOfHeads(dfa)

\* C26 (amended): for every Dfa, every state belongs to exactly one chain,
\* except the states on a closed cycle of chain links, which belong to none
\* and cannot be reached from a starting state; each chain is headed by a
\* state for which is_chain_head holds, and following chain links from a head
\* never comes back to a state.
C26_ChainsPartition ==
    /\ pc \in {"dfa", "ready"} =>
          /\ \A s \in 1..NumStates(dfa) :
                IF OnLinkCycle(dfa, s)
                THEN HeadsOf(dfa, s) = {} /\ s \notin Reachable(dfa)
                ELSE Cardinality(HeadsOf(dfa, s)) = 1
          /\ \A h \in ChainHeads(dfa) : NoRevisit(dfa, h)
    /\ pc = "ready" => ChainsAreOfHeads(dfa)

\* to_program has run on a Dfa of three states in two chains, one of them
\* of two states.
C26_Witness ==
    /\ pc = "ready"
    /\ NumStates(dfa) = 3
    /\ Cardinality(ChainHeads(dfa)) = 2
    /\ \E h \in ChainHeads(dfa) : Cardinality(ChainOf(dfa, h)) = 2

\* to_program has run on a Dfa with a closed cycle of chain links.
C26_WitnessCycle ==
    /\ pc = "ready"
    /\ \E s \in 1..NumStates(dfa) : OnLinkCycle(dfa, s)

(***************************************************************************)
(* Reference: where the chains of a Program lie in its instructions.       *)
(***************************************************************************)
\* The index in p.insts of the i-th instruction of the k-th chain of ch.
InstIndex(ch, k, i) == ch.lengths[k] + i

\* The instructions of the Program are those of the chains, one chain after
\* the other, each with the operation the chain gave it.
LaidOut(p, ch) ==
    /\ Len(p.insts) = Len(Concat(ch.chains))
    /\ \A k \in DOMAIN ch.chains : \A i \in DOMAIN ch.chains[k] :
          p.insts[InstIndex(ch, k, i)].op = ch.chains[k][i].op

\* C27, of the Program: a Branch or a Reject is the last instruction of its
\* chain.
BranchRejectLast(p, ch) ==
    \A k \in DOMAIN ch.chains : \A i \in DOMAIN ch.chains[k] :
        p.insts[InstIndex(ch, k, i)].op \in {"Branch", "Reject"} => i = Len(ch.chains[k])

\* C27: in every Program produced by to_program a Branch or Reject occurs only
\* as the last instruction of its chain, and a Literal, Char, Acc or LoopWhile
\* after which the call goes on, goes on with the next instruction.
C27_BranchRejectLastOthersFallThrough ==
    /\ [](pc = "ready" => LaidOut(prog, Chains(dfa)) /\ BranchRejectLast(prog, Chains(dfa)))
    /\ [][(/\ pc = "interp"
           /\ state \in DOMAIN prog.insts
           /\ CurInst.op \in {"Literal", "Char", "Acc", "LoopWhile"}
           /\ pc' = "interp") => state' = state + 1]_vars

\* A call has gone on from a Char to the Acc behind it, in a chain of at least
\* three instructions.
C27_Witness ==
    /\ pc = "interp"
    /\ state - 1 \in DOMAIN prog.insts
    /\ state + 1 \in DOMAIN prog.insts
    /\ prog.insts[state - 1].op = "Char"
    /\ prog.insts[state].op = "Acc"
    /\ prog.insts[state + 1].op \in {"Branch", "Reject"}
    /\ s_off > rpos

(***************************************************************************)
(* Reference: the index of the first instruction of the chain headed by h, *)
(* counted from the chains of the heads before h.                          *)
(***************************************************************************)
RECURSIVE InstsBefore(_, _)
InstsBefore(d, h) ==
    IF h <= 1 THEN 0
    ELSE InstsBefore(d, h - 1)
         + (IF h - 1 \in ChainHeads(d) THEN Len(BuildChain(d, h - 1, Reversed(d))) ELSE 0)

ChainStart(d, h) == InstsBefore(d, h) + 1

\* The value v of the Program stands for the state s of the Dfa.
IsStartOf(d, v, s) == s \in ChainHeads(d) /\ v = ChainStart(d, s)

\* The map pm of the Program is the map dm of the Dfa, with the same ranges
\* and every state replaced by the first instruction of the chain it heads.
MapIsStartOf(d, pm, dm) ==
    /\ Len(pm) = Len(dm)
    /\ \A i \in DOMAIN dm :
          /\ pm[i][1] = dm[i][1]
          /\ pm[i][2] = dm[i][2]
          /\ IsStartOf(d, pm[i][3], dm[i][3])

\* C28: after to_program every target stored in a Branch and every entry of
\* the initial triple is the offset of the first instruction of the chain
\* headed by the corresponding state of the Dfa, and every such state is a
\* chain head.
C28_TargetsAreChainStarts ==
    pc = "ready" =>
        /\ dfa.init_at_start = None => prog.init_at_start = None
        /\ dfa.init_at_start # None => IsStartOf(dfa, prog.init_at_start, dfa.init_at_start)
        /\ dfa.init_otherwise = None => prog.init_otherwise = None
        /\ dfa.init_otherwise # None => IsStartOf(dfa, prog.init_otherwise, dfa.init_otherwise)
        /\ MapIsStartOf(dfa, prog.init_after_char, dfa.init_after_char)
        /\ \A h \in ChainHeads(dfa) :
              LET c    == BuildChain(dfa, h, Reversed(dfa))
                  last == ChainStart(dfa, h) + Len(c) - 1
              IN  c[Len(c)].op = "Branch" =>
                      /\ prog.insts[last].op = "Branch"
                      /\ MapIsStartOf(dfa, prog.insts[last].cm, c[Len(c)].cm)
        /\ \A i \in DOMAIN prog.insts :
              prog.insts[i].op = "Branch" =>
                  \A j \in DOMAIN prog.insts[i].cm :
                      prog.insts[i].cm[j][3] \in {ChainStart(dfa, h) : h \in ChainHeads(dfa)}

\* to_program has mapped a Branch target and an initial state to the start
\* of a chain that is not the chain's number.
C28_Witness ==
    /\ pc = "ready"
    /\ prog.init_otherwise # None
    /\ prog.init_otherwise > dfa.init_otherwise
    /\ prog.init_after_char # <<>>
    /\ \E i \in DOMAIN prog.insts :
          /\ prog.insts[i].op = "Branch"
          /\ \E j \in DOMAIN prog.insts[i].cm : prog.insts[i].cm[j][3] >= 3

(***************************************************************************)
(* C29.  Every chain emitted by build_chain is non-empty and ends with     *)
(* Branch, Reject or Acc(always); Reject is appended exactly when the      *)
(* last state of the chain has no outgoing transition and the last         *)
(* instruction emitted before is not Acc(always).  Hence going on with     *)
(* the next instruction never runs into the next chain or past the end of  *)
(* the instructions.                                                       *)
(***************************************************************************)
\* The last state of the chain headed by h.
TerminalOf(d, h) ==
    LET w == LinkWalk(d, h, Reversed(d), NumStates(d) + 1)
    IN  w[Len(w)]

\* The chain c, headed by h, ends as the sentence says.
ChainEnds(d, h, c) ==
    /\ c # <<>>
    /\ IF d.states[TerminalOf(d, h)].transitions # <<>>
       THEN c[Len(c)].op = "Branch"
       ELSE \/ c[Len(c)] = Acc(AcceptAlways)
            \/ /\ c[Len(c)] = Reject
               /\ Len(c) > 1 => c[Len(c) - 1] # Acc(AcceptAlways)

\* The indices of the last instructions of the chains of the Program of d.
ChainLasts(d) ==
    {ChainStart(d, h) + Len(BuildChain(d, h, Reversed(d))) - 1 : h \in ChainHeads(d)}

\* C29: the chains end with Branch, Reject or Acc(always) as described, the
\* instruction pointer of a running call is always an index of the
\* instructions, and a step to the next instruction is never taken from the
\* last instruction of a chain.
C29_FallThroughStaysInChain ==
    /\ [](pc = "ready" =>
             \A h \in ChainHeads(dfa) : ChainEnds(dfa, h, BuildChain(dfa, h, Reversed(dfa))))
    /\ [](pc = "interp" => state \in DOMAIN prog.insts)
    /\ [][(/\ pc = "interp"
           /\ CurInst.op \in {"Literal", "Char", "Acc", "LoopWhile"}
           /\ pc' = "interp") => state \notin ChainLasts(dfa) /\ state' \in DOMAIN prog.insts]_vars

\* A call has gone on to the Reject that ends a chain of more than one
\* instruction, in a Program of several chains one of which ends with
\* Acc(always).
C29_Witness ==
    /\ pc = "interp"
    /\ state \in DOMAIN prog.insts
    /\ state > 1
    /\ prog.insts[state] = Reject
    /\ prog.insts[state - 1].op \in {"Literal", "Char", "Acc"}
    /\ \E h \in ChainHeads(dfa) :
          LET c == BuildChain(dfa, h, Reversed(dfa))
          IN  c[Len(c)] = Acc(AcceptAlways)

(***************************************************************************)
(* Dfas around the conditions of loop_optimization: a state 1 whose        *)
(* transitions are taken from five ranges, each absent or leading to state *)
(* 1 or to state 2, and a state 2 without transitions.  The lower-case     *)
(* ranges make the common characters of a self-loop 45, 46 or 47 of 62,    *)
(* the last range holds some or all of the non-ASCII characters.           *)
(***************************************************************************)
ChZero == 48
ChNine == 57
ChUpA == 65
ChUpZ == 90
ChLoI == 105
ChLoJ == 106
ChLoZ == 122
FirstNonAscii == 128

LoopSlots ==
    << {<<ChZero, ChNine>>},
       {<<ChUpA, ChUpZ>>},
       {<<ChA, ChA>>, <<ChA, ChLoI>>, <<ChA, ChLoJ>>},
       {<<ChLoZ, ChLoZ>>},
       {<<FirstNonAscii, ChH>>, <<FirstNonAscii, MaxChar>>} >>

SlotChoices(k) == {<<>>} \cup {<<<<r[1], r[2], t>>>> : r \in LoopSlots[k], t \in 1..2}

LoopTransitions ==
    {a \o b \o c \o e \o f : a \in SlotChoices(1), b \in SlotChoices(2),
                             c \in SlotChoices(3), e \in SlotChoices(4),
                             f \in SlotChoices(5)}

LoopDfas ==
    {[states |-> <<[transitions |-> trs, accept |-> a1],
                   [transitions |-> <<>>, accept |-> a2]>>,
      init_at_start |-> 1, init_after_char |-> <<>>, init_otherwise |-> 1] :
        trs \in LoopTransitions, a1 \in AcceptMenu, a2 \in {AcceptNever, AcceptEoiOrB}}

InitLoop ==
    /\ dfa \in LoopDfas
    /\ Idle

SpecLoop == InitLoop /\ [][NextRun]_vars

\* One turn of the `loop` of shortest_match_from.
InterpStep ==
    \/ InstReject
    \/ InstAcc
    \/ InstChar
    \/ InstLiteral
    \/ InstBranch
    \/ InstLoopWhile

\* The Dfas whose Programs are followed to the return of every call of the
\* interpreter: those of MaxStates states with state 1 initial at the start
\* and elsewhere, and those with self-loops.
InitRunLive ==
    /\ \/ DfaIn({MaxStates}, ChA, ChH, 1, 1, MaxTrans, 1,
                 [n \in {MaxStates} |-> {<<1, <<>>, 1>>}])
       \/ dfa \in LoopDfas
    /\ Idle

\* shortest_match_from is a loop in one thread: as long as it has not
\* returned, it executes the instruction it is at.
SpecRunLive == InitRunLive /\ [][NextRun]_vars /\ WF_vars(InterpStep)

(***************************************************************************)
(* Program::from_regex_bounded from the Dfa on: the Program runs with the  *)
(* runner make_runner chose, or, built by to_program alone, with the       *)
(* SlowRunner.                                                             *)
(***************************************************************************)
\* The Dfas of LoopDfas that never accept, with state 1 also the start state
\* after the character b.
AfterCharDfas ==
    {[d EXCEPT !.init_after_char = <<<<ChB, ChB, 1>>>>] :
        d \in {e \in LoopDfas : \A q \in DOMAIN e.states : IsNever(e.states[q].accept)}}

InitFast ==
    /\ \/ DfaIn(1..MaxStates, ChA, ChH, 1, 1, MaxTrans, 1,
                [n \in 0..MaxStates |-> InitMenu(n)])
       \/ dfa \in LoopDfas
       \/ dfa \in AfterCharDfas
    /\ Idle

NextFast ==
    \/ CompileToProgram
    \/ ProgramFromDfa
    \/ SlowRunnerRun
    \/ SlowRunnerResume
    \/ FastRunnerRun
    \/ FastRunnerResume
    \/ InstReject
    \/ InstAcc
    \/ InstChar
    \/ InstLiteral
    \/ InstBranch
    \/ InstLoopWhile

SpecFast == InitFast /\ [][NextFast]_vars

(***************************************************************************)
(* C30.  Reference: the conditions of the LoopWhile optimisation, stated   *)
(* on the ranges of the transitions that lead back to the state.           *)
(***************************************************************************)
\* The ranges <<lo, hi>> of the transitions of s that lead back to s.
SelfLoopRanges(d, s) ==
    {<<tr[1], tr[2]>> : tr \in {x \in Range(d.states[s].transitions) : x[3] = s}}

Covers(rs, c) == \E r \in rs : r[1] <= c /\ c <= r[2]

\* How many of the 62 characters [0-9A-Za-z] the ranges rs contain.
CommonCovered(rs) ==
    Cardinality({c \in (ChZero..ChNine) \cup (ChUpA..ChUpZ) \cup (ChA..ChLoZ) : Covers(rs, c)})

EntirelyAscii(rs) == \A r \in rs : r[2] < FirstNonAscii

\* The ranges contain every code point from 128 on: 128, the last code point
\* and the successor of the end of every range.
EveryNonAscii(rs) ==
    \A c \in {FirstNonAscii, MaxChar}
             \cup {r[2] + 1 : r \in {x \in rs : x[2] >= FirstNonAscii - 1 /\ x[2] < MaxChar}} :
        Covers(rs, c)

\* The condition of the sentence for the chain headed by h.
LoopCondition(d, h) ==
    /\ TerminalOf(d, h) = h
    /\ IsNever(d.states[h].accept)
    /\ CommonCovered(SelfLoopRanges(d, h)) >= 46
    /\ EntirelyAscii(SelfLoopRanges(d, h)) \/ EveryNonAscii(SelfLoopRanges(d, h))

\* The transitions of s that do not lead back to s, in their order.
NotBack(d, s) == SelectSeq(d.states[s].transitions, LAMBDA tr : tr[3] # s)

\* C30: build_chain emits LoopWhile(set) followed by Branch(the transitions
\* not leading back to the state) exactly when nothing has been emitted for the
\* chain (the head is the last state and its accept is never) and the
\* self-loop set holds at least 46 of the 62 characters [0-9A-Za-z] and is
\* entirely ASCII or holds every non-ASCII code point; in every other case
\* with outgoing transitions the chain ends with Branch(all transitions) and
\* has no LoopWhile.
C30_LoopWhileExactlyWhenCommon ==
    pc = "ready" =>
        \A h \in ChainHeads(dfa) :
            LET c    == BuildChain(dfa, h, Reversed(dfa))
                last == TerminalOf(dfa, h)
                rs   == SelfLoopRanges(dfa, h)
            IN  dfa.states[last].transitions # <<>> =>
                    IF LoopCondition(dfa, h)
                    THEN /\ Len(c) = 2
                         /\ c[1].op = "LoopWhile"
                         /\ c[1].set.set = {b \in 0..(FirstNonAscii - 1) : Covers(rs, b)}
                         /\ c[1].set.contains_non_ascii = EveryNonAscii(rs)
                         /\ c[2] = Branch(NotBack(dfa, h))
                    ELSE /\ \A i \in DOMAIN c : c[i].op # "LoopWhile"
                         /\ c[Len(c)] = Branch(dfa.states[last].transitions)

\* to_program has emitted a LoopWhile for a self-loop over exactly 46 common
\* characters and every non-ASCII code point, with a transition left for the
\* Branch.
C30_Witness ==
    /\ pc = "ready"
    /\ LoopCondition(dfa, 1)
    /\ CommonCovered(SelfLoopRanges(dfa, 1)) = 46
    /\ EveryNonAscii(SelfLoopRanges(dfa, 1))
    /\ NotBack(dfa, 1) # <<>>
    /\ prog.insts[1].op = "LoopWhile"

\* to_program has emitted a plain Branch for a self-loop over 45 common
\* characters, all ASCII, at a state that never accepts.
C30_WitnessBelow ==
    /\ pc = "ready"
    /\ IsNever(dfa.states[1].accept)
    /\ CommonCovered(SelfLoopRanges(dfa, 1)) = 45
    /\ EntirelyAscii(SelfLoopRanges(dfa, 1))
    /\ prog.insts[1].op = "Branch"

\* to_program has emitted a plain Branch for a self-loop over 46 common
\* characters and some, not all, non-ASCII code points.
C30_WitnessSomeNonAscii ==
    /\ pc = "ready"
    /\ IsNever(dfa.states[1].accept)
    /\ CommonCovered(SelfLoopRanges(dfa, 1)) = 46
    /\ ~EntirelyAscii(SelfLoopRanges(dfa, 1))
    /\ ~EveryNonAscii(SelfLoopRanges(dfa, 1))
    /\ prog.insts[1].op = "Branch"

\* to_program has emitted Acc and Branch for a self-loop over 46 common
\* characters at a state that accepts.
C30_WitnessAccepting ==
    /\ pc = "ready"
    /\ ~IsNever(dfa.states[1].accept)
    /\ CommonCovered(SelfLoopRanges(dfa, 1)) = 46
    /\ EntirelyAscii(SelfLoopRanges(dfa, 1))
    /\ prog.insts[1].op = "Acc"
    /\ prog.insts[2].op = "Branch"

(***************************************************************************)
(* C31.  make_runner chooses the fast runner only when init_after_char is  *)
(* empty, init_at_start equals init_otherwise and is not None, and the     *)
(* instruction at that state is a Literal, a LoopWhile, or a Char or       *)
(* Branch whose character set is entirely ASCII; in every other case, and  *)
(* for a Program obtained from to_program alone, the slow runner is used.  *)
(***************************************************************************)
\* The condition of the sentence, on the ranges of the first instruction.
FastCondition(p) ==
    /\ Len(p.init_after_char) = 0
    /\ p.init_at_start = p.init_otherwise
    /\ p.init_at_start # None
    /\ LET inst == p.insts[p.init_at_start]
       IN  \/ inst.op \in {"Literal", "LoopWhile"}
           \/ inst.op = "Char" /\ \A k \in DOMAIN inst.cs : inst.cs[k][2] < FirstNonAscii
           \/ inst.op = "Branch" /\ \A k \in DOMAIN inst.cm : inst.cm[k][2] < FirstNonAscii

C31_FastRunnerChoice ==
    pc = "ready" =>
        /\ (MakeRunner(prog).kind = "FastRunner") <=> FastCondition(prog)
        /\ MakeRunner(prog).kind \in {"FastRunner", "SlowRunner"}
        /\ prog.runner \in {SlowRunner, MakeRunner(prog)}
        /\ ToProgram(dfa).runner = SlowRunner

\* make_runner has chosen a fast runner for a first instruction of each kind.
C31_Witness ==
    /\ pc = "ready"
    /\ prog.runner.kind = "FastRunner"
    /\ prog.insts[prog.init_at_start].op = "Char"

C31_WitnessLiteral ==
    /\ pc = "ready"
    /\ prog.runner.kind = "FastRunner"
    /\ prog.runner.searcher.kind = "SearchThenMatch"

C31_WitnessBranch ==
    /\ pc = "ready"
    /\ prog.runner.kind = "FastRunner"
    /\ prog.insts[prog.init_at_start].op = "Branch"

\* make_runner has chosen the slow runner for a first instruction that is a
\* Branch with a non-ASCII character, and for a Program with a start state
\* after a character.
C31_WitnessSlowNonAscii ==
    /\ pc = "ready"
    /\ prog.runner = MakeRunner(prog)
    /\ prog.runner.kind = "SlowRunner"
    /\ prog.init_after_char = <<>>
    /\ prog.init_at_start = prog.init_otherwise
    /\ prog.init_at_start # None
    /\ prog.insts[prog.init_at_start].op = "Branch"

C31_WitnessSlowAfterChar ==
    /\ pc = "ready"
    /\ prog.runner = MakeRunner(prog)
    /\ prog.init_after_char # <<>>
    /\ prog.init_at_start = prog.init_otherwise
    /\ prog.init_at_start # None
    /\ prog.insts[prog.init_at_start].op = "LoopWhile"

(***************************************************************************)
(* C32.  Whenever make_runner selects a fast runner, the fast runner       *)
(* returns on every input what the slow runner returns on the same         *)
(* Program: the first shortest match, from the leftmost start.             *)
(***************************************************************************)
C32_FastEqualsSlow ==
    (pc = "done" /\ prog.runner.kind = "FastRunner") => result = FirstShortest(prog, input)

\* The slow runner returns the first shortest match on every Program of the
\* same family.
SlowReturnsFirstShortest ==
    (pc = "done" /\ prog.runner.kind = "SlowRunner") => result = FirstShortest(prog, input)

\* A fast runner returned a match that does not start at offset 0, after a
\* candidate of the searcher failed in the interpreter.
C32_Witness ==
    /\ pc = "done"
    /\ prog.runner.kind = "FastRunner"
    /\ result.some
    /\ result.start > 0
    /\ Len(tried) >= 2

\* A fast runner of each searcher returned a match.
C32_WitnessRewind ==
    /\ pc = "done"
    /\ prog.runner.searcher.kind = "SearchThenMatch"
    /\ result.some
    /\ result.end >= 2

C32_WitnessStr ==
    /\ pc = "done"
    /\ prog.runner.searcher.kind = "StrSearcher"
    /\ result.some
    /\ result.start > 0

C32_WitnessRepeatUntil ==
    /\ pc = "done"
    /\ prog.runner.searcher.kind = "RepeatUntil"
    /\ result.some
    /\ result.end > result.start + 1

C32_WitnessAsciiSet ==
    /\ pc = "done"
    /\ prog.runner.searcher.kind = "AsciiSet"
    /\ result.some
    /\ result.start > 0

C32_WitnessByte ==
    /\ pc = "done"
    /\ prog.runner.searcher.kind = "ByteSearcher"
    /\ result.some
    /\ result.start > 0

(***************************************************************************)
(* C33.  In Dfa::minimize, when a class Y of the partition is split by a   *)
(* set s into Y \cap s and Y \ s, both non-empty: if Y is in the worklist  *)
(* of distinguishers it is replaced there by both halves; otherwise only   *)
(* the smaller half is added, the second half Y \ s when the sizes are     *)
(* equal.  Nothing else in the worklist changes.                           *)
(***************************************************************************)
\* The classes of parts that s splits.
SplitBy(parts, s) == {Y \in Range(parts) : Y \cap s # {} /\ Y \ s # {}}

SmallerHalf(Y, s) ==
    IF Cardinality(Y \cap s) < Cardinality(Y \ s) THEN Y \cap s ELSE Y \ s

LargerHalf(Y, s) ==
    IF Cardinality(Y \cap s) < Cardinality(Y \ s) THEN Y \ s ELSE Y \cap s

\* wl_after is wl_before with every split class replaced by its halves when it
\* was there, and the smaller half added when it was not.
WorklistUpdated(parts, s, wl_before, wl_after) ==
    /\ \A Y \in SplitBy(parts, s) :
          IF Y \in wl_before
          THEN Y \notin wl_after /\ (Y \cap s) \in wl_after /\ (Y \ s) \in wl_after
          ELSE SmallerHalf(Y, s) \in wl_after /\ LargerHalf(Y, s) \notin wl_after
    /\ \A X \in wl_before \ SplitBy(parts, s) : X \in wl_after
    /\ \A X \in wl_after \ wl_before :
          \E Y \in SplitBy(parts, s) : X \in {Y \cap s, Y \ s}

\* The partition and the worklist before the k-th set of the pop of dist.
BeforeSet(dist, k) ==
    SplitBySets(SubSeq(TransitionsInto(dfa_in, dist), 1, k - 1), partition,
                distinguishers \ {dist})

C33_SplitUpdatesWorklist ==
    pc = "minimize" =>
        \A dist \in distinguishers :
            \A k \in DOMAIN TransitionsInto(dfa_in, dist) :
                LET s == TransitionsInto(dfa_in, dist)[k]
                    before == BeforeSet(dist, k)
                    after == SplitPartition(before.partition, s, <<>>,
                                            before.distinguishers)
                IN  WorklistUpdated(before.partition, s, before.distinguishers,
                                    after.distinguishers)

\* A pop splits a class that is not in the worklist into halves of one size.
C33_Witness ==
    /\ pc = "minimize"
    /\ \E dist \in distinguishers :
          \E k \in DOMAIN TransitionsInto(dfa_in, dist) :
              \E Y \in SplitBy(BeforeSet(dist, k).partition,
                                TransitionsInto(dfa_in, dist)[k]) :
                  /\ Y \notin BeforeSet(dist, k).distinguishers
                  /\ Cardinality(Y \cap TransitionsInto(dfa_in, dist)[k])
                        = Cardinality(Y \ TransitionsInto(dfa_in, dist)[k])

\* A pop splits a class that is in the worklist.
C33_WitnessInWorklist ==
    /\ pc = "minimize"
    /\ \E dist \in distinguishers :
          \E k \in DOMAIN TransitionsInto(dfa_in, dist) :
              \E Y \in SplitBy(BeforeSet(dist, k).partition,
                                TransitionsInto(dfa_in, dist)[k]) :
                  Y \in BeforeSet(dist, k).distinguishers

\* A pop splits a class that is not in the worklist into a smaller first half.
C33_WitnessSmallerFirst ==
    /\ pc = "minimize"
    /\ \E dist \in distinguishers :
          \E k \in DOMAIN TransitionsInto(dfa_in, dist) :
              \E Y \in SplitBy(BeforeSet(dist, k).partition,
                                TransitionsInto(dfa_in, dist)[k]) :
                  /\ Y \notin BeforeSet(dist, k).distinguishers
                  /\ Cardinality(Y \cap TransitionsInto(dfa_in, dist)[k])
                        < Cardinality(Y \ TransitionsInto(dfa_in, dist)[k])

(***************************************************************************)
(* C34.  At every step of Dfa::minimize, from the initial accept/reject    *)
(* partition to the end, the partition is a true partition of the states   *)
(* of the Dfa: its classes are non-empty, pairwise disjoint, and their     *)
(* union is the set of all states.                                         *)
(***************************************************************************)
IsPartitionOf(parts, S) ==
    /\ \A k \in DOMAIN parts : parts[k] # {}
    /\ \A i, j \in DOMAIN parts : i # j => parts[i] \cap parts[j] = {}
    /\ UNION Range(parts) = S

C34_TruePartition ==
    pc = "minimize" =>
        /\ IsPartitionOf(partition, 1..NumStates(dfa_in))
        /\ \A dist \in distinguishers :
              \A k \in DOMAIN TransitionsInto(dfa_in, dist) :
                  IsPartitionOf(BeforeSet(dist, k + 1).partition, 1..NumStates(dfa_in))

\* No state of the Dfa never accepts, so reject_partition was given the empty
\* set, and the worklist loop has split a class.
C34_Witness ==
    /\ pc = "minimize"
    /\ NumStates(dfa_in) >= 2
    /\ AcceptPartition(dfa_in).nevers = {}
    /\ Len(partition) > Cardinality(AcceptPartition(dfa_in).others)

\* The initial partition has classes of both kinds, and the loop has split one.
C34_WitnessBoth ==
    /\ pc = "minimize"
    /\ AcceptPartition(dfa_in).nevers # {}
    /\ AcceptPartition(dfa_in).others # {}
    /\ Len(partition) > Cardinality(AcceptPartition(dfa_in).others)
                          + Len(RejectPartition(dfa_in, AcceptPartition(dfa_in).nevers))

(***************************************************************************)
(* C40.  In Dfa::minimize, at the start of every iteration of the worklist *)
(* loop, every set in the worklist of distinguishers is a class of the     *)
(* current partition: a class that is split while it is in the worklist is *)
(* replaced there by its halves.                                           *)
(***************************************************************************)
C40_WorklistHoldsClasses ==
    pc = "minimize" => distinguishers \subseteq Range(partition)

\* The worklist holds the two halves of a class of the initial partition.
C40_Witness ==
    /\ pc = "minimize"
    /\ \E X, Y \in distinguishers :
          /\ X # Y
          /\ (X \cup Y) \in (AcceptPartition(dfa_in).others
                \cup Range(RejectPartition(dfa_in, AcceptPartition(dfa_in).nevers)))

(***************************************************************************)
(* C37.  Dfa::minimize terminates for every finite Dfa: whichever          *)
(* distinguisher is popped at each step, the worklist eventually becomes   *)
(* empty.                                                                  *)
(***************************************************************************)
\* The variant of the worklist loop: the sets in the worklist, and two for
\* every split that may still happen.
MeasureOf(parts, wl) == Cardinality(wl) + 2 * (NumStates(dfa_in) - Len(parts))

\* Every iteration, whichever set it pops, decreases the variant, which is
\* never negative; and under SpecMinLive the worklist becomes empty.
C37_MinimizeTerminates ==
    /\ [](pc = "minimize" =>
            /\ MeasureOf(partition, distinguishers) >= 0
            /\ \A dist \in distinguishers :
                  MeasureOf(WorklistIteration(dist).partition,
                            WorklistIteration(dist).distinguishers)
                      < MeasureOf(partition, distinguishers))
    /\ (pc = "minimize") ~> (pc = "minimize" /\ distinguishers = {})

\* The worklist is empty after iterations that split a class.
C37_Witness ==
    /\ pc = "minimize"
    /\ distinguishers = {}
    /\ Len(partition) > Cardinality(AcceptPartition(dfa_in).others)
                          + Len(RejectPartition(dfa_in, AcceptPartition(dfa_in).nevers))

(***************************************************************************)
(* C35.  For every input automaton, one with no accepting state included,  *)
(* every class of the partition of Automaton::minimize is non-empty, so    *)
(* that picking a representative of each class when the states are         *)
(* re-indexed never fails.                                                 *)
(***************************************************************************)
C35_AutoClassesNonEmpty ==
    /\ pc = "aminimize" => \A part \in apartition : part # {}
    /\ pc # "apanic"

\* Every class is non-empty when the automaton has an accepting state.
C35_HoldsWithAccepting ==
    AcceptingStates(auto_in) # {} =>
        /\ pc = "aminimize" => \A part \in apartition : part # {}
        /\ pc # "apanic"

(***************************************************************************)
(* C36.  reversed() keeps the number of states, their indices and their    *)
(* accept values, and has the transition (q, range, p) exactly as many     *)
(* times as the original has (p, range, q), and no other range transition. *)
(***************************************************************************)
\* How many times x occurs in the sequence seq.
Occurrences(seq, x) == Cardinality({k \in DOMAIN seq : seq[k] = x})

\* The ranges that label a transition of the automaton a.
RangesOf(a) ==
    UNION {{<<a.states[q].ranges[k][1], a.states[q].ranges[k][2]>> :
                k \in DOMAIN a.states[q].ranges} : q \in DOMAIN a.states}

\* The Dfa with the range transitions of a deterministic automaton.
AsDfa(a) ==
    [states |-> [q \in DOMAIN a.states |->
                    [transitions |-> a.states[q].ranges,
                     accept |-> IF a.states[q].accepting THEN AcceptAlways
                                ELSE AcceptNever]],
     init_at_start |-> a.initial, init_after_char |-> <<>>, init_otherwise |-> None]

C36_ReversedTransposes ==
    pc = "reversed" =>
        /\ Len(auto.states) = Len(auto_in.states)
        /\ \A q \in DOMAIN auto_in.states :
              auto.states[q].accepting = auto_in.states[q].accepting
        /\ \A q, t \in DOMAIN auto_in.states :
              \A r \in RangesOf(auto_in) \cup RangesOf(auto) :
                  Occurrences(auto.states[q].ranges, <<r[1], r[2], t>>)
                    = Occurrences(auto_in.states[t].ranges, <<r[1], r[2], q>>)
        /\ \A q \in DOMAIN auto.states : \A k \in DOMAIN auto.states[q].ranges :
              auto.states[q].ranges[k][3] \in DOMAIN auto_in.states
        /\ IsDeterministic(auto_in) =>
              /\ Len(Reversed(AsDfa(auto_in))) = Len(auto_in.states)
              /\ \A q \in DOMAIN auto_in.states :
                    Reversed(AsDfa(auto_in))[q] = auto.states[q].ranges

\* The original has a transition twice, a transition between two states, and
\* an accepting state that is not the initial one of the reversal.
C36_Witness ==
    /\ pc = "reversed"
    /\ \E st \in DOMAIN auto_in.states : \E i, j \in DOMAIN auto_in.states[st].ranges :
          /\ i # j
          /\ auto_in.states[st].ranges[i] = auto_in.states[st].ranges[j]
          /\ auto_in.states[st].ranges[i][3] # st
    /\ \E st \in DOMAIN auto_in.states : auto_in.states[st].accepting /\ st # 1

\* The original is deterministic, and a state of it has two transitions into
\* one other state.
C36_WitnessDfa ==
    /\ pc = "reversed"
    /\ IsDeterministic(auto_in)
    /\ \E q \in DOMAIN auto.states : Len(auto.states[q].ranges) >= 2

(***************************************************************************)
(* C38.  The interpreter terminates on every finite input for every        *)
(* Program produced by to_program: a step that does not consume a          *)
(* character moves to a later instruction, so that every path back to an   *)
(* instruction already visited (through a Branch target) has consumed at   *)
(* least one character; every call of shortest_match_from returns.         *)
(***************************************************************************)
C38_InterpreterTerminates ==
    /\ [](pc = "interp" => (state \in DOMAIN prog.insts /\ s_off <= Len(input)))
    /\ [][(pc = "interp" /\ pc' = "interp") =>
            (s_off' > s_off \/ (s_off' = s_off /\ state' > state))]_vars
    /\ (pc = "interp") ~> (pc = "ret")

\* The interpreter is back at the Branch the call started at, which has no
\* transition to itself, after two characters or more.
C38_Witness ==
    /\ pc = "interp"
    /\ state = tried[Len(tried)][2]
    /\ s_off >= init_pos + 2
    /\ prog.insts[state].op = "Branch"
    /\ \A k \in DOMAIN prog.insts[state].cm : prog.insts[state].cm[k][3] # state

\* The interpreter went on after a LoopWhile that consumed nothing.
C38_WitnessLoopWhile ==
    /\ pc = "interp"
    /\ state >= 2
    /\ prog.insts[state - 1].op = "LoopWhile"
    /\ s_off = init_pos
    /\ state = tried[Len(tried)][2] + 1

(***************************************************************************)
(* C39.  Every result Some((start, end)) of shortest_match on the input s  *)
(* has 0 <= start <= end <= len(s) in bytes, and end - start is the number *)
(* of bytes the match consumed, 0 for a zero-width match, with the slow    *)
(* runner and with a fast runner.                                          *)
(***************************************************************************)
\* The bytes of the match the searcher of a fast runner went over before the
\* interpreter was called; none with the slow runner.
SearchedBytes ==
    IF prog.runner.kind = "FastRunner" /\ ~prog.runner.rewind
    THEN items[1][2] - items[1][1]
    ELSE 0

C39_SpanWithinInput ==
    (pc = "done" /\ result.some) =>
        /\ 0 <= result.start
        /\ result.start <= result.end
        /\ result.end <= Len(input)
        /\ result.end - result.start = SearchedBytes + (s_off - init_pos)
        /\ result.start + SearchedBytes = init_pos
        /\ (result.end = result.start) <=>
              (prog.insts[tried[Len(tried)][2]].op = "Acc" /\ s_off = init_pos
               /\ SearchedBytes = 0)

\* A fast runner whose searcher went over a first byte returned a match of
\* two bytes or more that does not start at offset 0.
C39_Witness ==
    /\ pc = "done"
    /\ result.some
    /\ prog.runner.kind = "FastRunner"
    /\ ~prog.runner.rewind
    /\ result.start > 0
    /\ result.end >= result.start + 2

\* The slow runner returned a zero-width match that does not start at 0.
C39_WitnessZeroWidth ==
    /\ pc = "done"
    /\ result.some
    /\ prog.runner.kind = "SlowRunner"
    /\ result.start > 0
    /\ result.end = result.start

\* The slow runner returned a match that ends at the end of the input.
C39_WitnessToEnd ==
    /\ pc = "done"
    /\ result.some
    /\ prog.runner.kind = "SlowRunner"
    /\ result.start > 0
    /\ result.end > result.start
    /\ result.end = Len(input)

====
